---- MODULE Spec2Model ----
(***************************************************************************)
(* RBAC core of the CMS backend: the authorization middleware              *)
(* (middleware/rbac.js) and the role lifecycle operations of               *)
(* RBACController (controllers/rbacController.js), over the relational     *)
(* store they query.                                                       *)
(***************************************************************************)
EXTENDS Integers, Sequences, FiniteSets, TLC

(* ---------------------------------------------------------------------- *)
(* Bounds of the model                                                     *)
(* ---------------------------------------------------------------------- *)
MaxTime == 2
MaxPairs == 2
MaxRoles == 3
MaxAudit == 1

(* SQL NULL / JavaScript null for ids and timestamps (ids and times are    *)
(* positive integers).                                                     *)
NULL == 0

(* ---------------------------------------------------------------------- *)
(* Store: the tables the RBAC core reads and writes                        *)
(* ---------------------------------------------------------------------- *)
VARIABLES
    owners,                     \* ids of the rows of owners
    companies,                  \* id -> [owner_id, is_active, is_frozen]
    users,                      \* id -> [company_id, is_active, assigned_role_id]
    company_roles,              \* id -> role row
    role_permissions,           \* set of [company_role_id, system_permission_id, can_grant]
    user_permission_overrides,  \* set of [user_id, system_permission_id, is_granted, expires_at]
    permission_audit_log,       \* sequence of audit rows
    system_modules,             \* id -> [module_key, is_active]
    system_permissions,         \* id -> [module_id, permission_key, is_active]
    nextRoleId,                 \* AUTO_INCREMENT of company_roles
    now,                        \* NOW() of the database
    inflight,                   \* the transaction open on a second connection
    res                         \* what the last handler answered

store == <<owners, companies, users, company_roles, role_permissions,
           user_permission_overrides, permission_audit_log,
           system_modules, system_permissions, nextRoleId>>
vars == <<owners, companies, users, company_roles, role_permissions,
          user_permission_overrides, permission_audit_log,
          system_modules, system_permissions, nextRoleId, now, inflight, res>>

CompanyIds == {1, 2}
UserIds == {1, 2}
ModuleIds == {1, 2}
PermissionIds == {1, 2}
RoleIds == 1..MaxRoles
Times == 1..MaxTime

(* The permission catalog: (roles, manage_roles) and                       *)
(* (orders, view_all_orders).                                              *)
ModuleKeyOf == [m \in ModuleIds |-> IF m = 1 THEN "roles" ELSE "orders"]
PermissionKeyOf ==
    [p \in PermissionIds |-> IF p = 1 THEN "manage_roles" ELSE "view_all_orders"]
ModuleOfPermission == [p \in PermissionIds |-> p]

(* (moduleKey, permissionKey) arguments the routes pass to the gates; the  *)
(* third pair names a permission key under a module that does not own it.  *)
Pairs == { <<"roles", "manage_roles">>,
           <<"orders", "view_all_orders">>,
           <<"orders", "manage_roles">> }
NoPair == <<"", "">>
PairLists == UNION { [1..n -> Pairs] : n \in 0..MaxPairs }

(* req.user as authenticateToken leaves it: an owner row, a company user,  *)
(* or nothing.                                                             *)
NoUser == [id |-> NULL, userType |-> "none", company_id |-> NULL]
OwnerPrincipal == [id |-> 1, userType |-> "owner", company_id |-> NULL]
UserPrincipal(u) == [id |-> u, userType |-> "user", company_id |-> 1]
Principals == {NoUser, OwnerPrincipal} \cup { UserPrincipal(u) : u \in UserIds }

(* No transaction is open beside the request being handled.               *)
NoTxn == [op |-> "none"]

NoRes == [gate |-> "idle", user |-> NoUser, pairs |-> << >>, outcome |-> "none",
          status |-> 0, code |-> "", named |-> NoPair, reads |-> 0,
          failed |-> FALSE]

(* ---------------------------------------------------------------------- *)
(* middleware/rbac.js: the queries of the permission gates                 *)
(* ---------------------------------------------------------------------- *)

(* "SELECT is_frozen FROM companies WHERE id = ?" and the test on it.      *)
CompanyIsFrozen(companyId) ==
    companyId \in DOMAIN companies /\ companies[companyId].is_frozen

(* "SELECT is_active FROM users WHERE id = ?" and the test on it.          *)
UserMissingOrInactive(userId) ==
    userId \notin DOMAIN users \/ ~users[userId].is_active

(* The key match of the joins system_permissions / system_modules.         *)
PermissionHasKeys(permissionId, moduleKey, permissionKey) ==
    /\ permissionId \in DOMAIN system_permissions
    /\ system_permissions[permissionId].module_id \in DOMAIN system_modules
    /\ system_modules[system_permissions[permissionId].module_id].module_key = moduleKey
    /\ system_permissions[permissionId].permission_key = permissionKey

(* Variant of RolePermissionRows that joins role_permissions without the   *)
(* user's assigned_role_id: any role's binding would count.                *)
RolePermissionRows_AnyRole(userId, moduleKey, permissionKey) ==
    { rp \in role_permissions :
        /\ userId \in DOMAIN users
        /\ rp.company_role_id \in DOMAIN company_roles
        /\ PermissionHasKeys(rp.system_permission_id, moduleKey, permissionKey)
        /\ users[userId].is_active
        /\ company_roles[rp.company_role_id].is_active
        /\ system_modules[system_permissions[rp.system_permission_id].module_id].is_active
        /\ system_permissions[rp.system_permission_id].is_active }

(* The role query of requirePermission: users JOIN company_roles JOIN      *)
(* role_permissions JOIN system_permissions JOIN system_modules with the   *)
(* four is_active tests.                                                   *)
RolePermissionRows(userId, moduleKey, permissionKey) ==
    { rp \in role_permissions :
        /\ userId \in DOMAIN users
        /\ users[userId].assigned_role_id = rp.company_role_id
        /\ rp.company_role_id \in DOMAIN company_roles
        /\ PermissionHasKeys(rp.system_permission_id, moduleKey, permissionKey)
        /\ users[userId].is_active
        /\ company_roles[rp.company_role_id].is_active
        /\ system_modules[system_permissions[rp.system_permission_id].module_id].is_active
        /\ system_permissions[rp.system_permission_id].is_active }

(* Variant of OverrideRows with expires_at >= NOW(): an override would     *)
(* still count at the instant it expires.                                  *)
OverrideRows_AtExpiry(userId, moduleKey, permissionKey) ==
    { upo \in user_permission_overrides :
        /\ upo.user_id = userId
        /\ PermissionHasKeys(upo.system_permission_id, moduleKey, permissionKey)
        /\ upo.is_granted
        /\ (upo.expires_at = NULL \/ upo.expires_at >= now) }

(* The override query of requirePermission.                                *)
OverrideRows(userId, moduleKey, permissionKey) ==
    { upo \in user_permission_overrides :
        /\ upo.user_id = userId
        /\ PermissionHasKeys(upo.system_permission_id, moduleKey, permissionKey)
        /\ upo.is_granted
        /\ (upo.expires_at = NULL \/ upo.expires_at > now) }

(* The role query inside the loop of requireAnyPermission: only u.is_active *)
(* and cr.is_active are tested.                                            *)
AnyRolePermissionRows(userId, moduleKey, permissionKey) ==
    { rp \in role_permissions :
        /\ userId \in DOMAIN users
        /\ users[userId].assigned_role_id = rp.company_role_id
        /\ rp.company_role_id \in DOMAIN company_roles
        /\ PermissionHasKeys(rp.system_permission_id, moduleKey, permissionKey)
        /\ users[userId].is_active
        /\ company_roles[rp.company_role_id].is_active }

(* The override query inside the loop of requireAnyPermission.             *)
AnyOverrideRows(userId, moduleKey, permissionKey) ==
    { upo \in user_permission_overrides :
        /\ upo.user_id = userId
        /\ PermissionHasKeys(upo.system_permission_id, moduleKey, permissionKey)
        /\ upo.is_granted
        /\ (upo.expires_at = NULL \/ upo.expires_at > now) }

(* The role query inside the loop of requireAllPermissions.                *)
AllRolePermissionRows(userId, moduleKey, permissionKey) ==
    { rp \in role_permissions :
        /\ userId \in DOMAIN users
        /\ users[userId].assigned_role_id = rp.company_role_id
        /\ rp.company_role_id \in DOMAIN company_roles
        /\ PermissionHasKeys(rp.system_permission_id, moduleKey, permissionKey)
        /\ users[userId].is_active
        /\ company_roles[rp.company_role_id].is_active }

(* The override query inside the loop of requireAllPermissions.            *)
AllOverrideRows(userId, moduleKey, permissionKey) ==
    { upo \in user_permission_overrides :
        /\ upo.user_id = userId
        /\ PermissionHasKeys(upo.system_permission_id, moduleKey, permissionKey)
        /\ upo.is_granted
        /\ (upo.expires_at = NULL \/ upo.expires_at > now) }

(* The ownership query of requireOwner: companies JOIN users ON            *)
(* c.owner_id = u.id WHERE u.id = ? AND c.id = ?.                          *)
IsOwnerRows(userId, companyId) ==
    { c \in DOMAIN companies :
        /\ c = companyId
        /\ userId \in DOMAIN users
        /\ companies[c].owner_id = userId }

(* ---------------------------------------------------------------------- *)
(* What a gate answers: next() or a JSON error                             *)
(* ---------------------------------------------------------------------- *)
Continue(gate, user, pairs, reads) ==
    [gate |-> gate, user |-> user, pairs |-> pairs, outcome |-> "next",
     status |-> 0, code |-> "", named |-> NoPair, reads |-> reads,
     failed |-> FALSE]

Reject(gate, user, pairs, status, code, named, reads) ==
    [gate |-> gate, user |-> user, pairs |-> pairs, outcome |-> "rejected",
     status |-> status, code |-> code, named |-> named, reads |-> reads,
     failed |-> FALSE]

(* !req.user || !req.user.id                                               *)
Unauthenticated(user) == user = NoUser \/ user.id = NULL

(* Variant of CatchBlock that hands the request on when a query throws.    *)
CatchBlock_FailOpen(r, failAt, code) ==
    IF failAt >= 1 /\ failAt <= r.reads
    THEN [r EXCEPT !.outcome = "next", !.status = 0, !.code = "",
                   !.named = NoPair, !.reads = failAt, !.failed = TRUE]
    ELSE r

(* The catch block of a gate: the failAt-th db.execute of the request      *)
(* throws (failAt = 0: none does), if the gate gets that far.              *)
CatchBlock(r, failAt, code) ==
    IF failAt >= 1 /\ failAt <= r.reads
    THEN [r EXCEPT !.outcome = "rejected", !.status = 500, !.code = code,
                   !.named = NoPair, !.reads = failAt, !.failed = TRUE]
    ELSE r

(* Variant of requirePermission without the owner branch.                  *)
requirePermission_NoOwnerBypass(user, moduleKey, permissionKey) ==
    LET pairs == << <<moduleKey, permissionKey>> >>
        g == "requirePermission" IN
    IF Unauthenticated(user)
    THEN Reject(g, user, pairs, 401, "UNAUTHORIZED", NoPair, 0)
    ELSE IF CompanyIsFrozen(user.company_id)
    THEN Reject(g, user, pairs, 403, "COMPANY_FROZEN", NoPair, 1)
    ELSE IF UserMissingOrInactive(user.id)
    THEN Reject(g, user, pairs, 403, "USER_INACTIVE", NoPair, 2)
    ELSE IF Cardinality(RolePermissionRows(user.id, moduleKey, permissionKey)) > 0
    THEN Continue(g, user, pairs, 3)
    ELSE IF Cardinality(OverrideRows(user.id, moduleKey, permissionKey)) > 0
    THEN Continue(g, user, pairs, 4)
    ELSE Reject(g, user, pairs, 403, "PERMISSION_DENIED",
                <<moduleKey, permissionKey>>, 4)

(* Variant of requirePermission that tests the user before the company.    *)
requirePermission_UserFirst(user, moduleKey, permissionKey) ==
    LET pairs == << <<moduleKey, permissionKey>> >>
        g == "requirePermission" IN
    IF Unauthenticated(user)
    THEN Reject(g, user, pairs, 401, "UNAUTHORIZED", NoPair, 0)
    ELSE IF user.userType = "owner"
    THEN Continue(g, user, pairs, 0)
    ELSE IF UserMissingOrInactive(user.id)
    THEN Reject(g, user, pairs, 403, "USER_INACTIVE", NoPair, 1)
    ELSE IF CompanyIsFrozen(user.company_id)
    THEN Reject(g, user, pairs, 403, "COMPANY_FROZEN", NoPair, 2)
    ELSE IF Cardinality(RolePermissionRows(user.id, moduleKey, permissionKey)) > 0
    THEN Continue(g, user, pairs, 3)
    ELSE IF Cardinality(OverrideRows(user.id, moduleKey, permissionKey)) > 0
    THEN Continue(g, user, pairs, 4)
    ELSE Reject(g, user, pairs, 403, "PERMISSION_DENIED",
                <<moduleKey, permissionKey>>, 4)

requirePermission(user, moduleKey, permissionKey) ==
    LET pairs == << <<moduleKey, permissionKey>> >>
        g == "requirePermission" IN
    IF Unauthenticated(user)
    THEN Reject(g, user, pairs, 401, "UNAUTHORIZED", NoPair, 0)
    ELSE IF user.userType = "owner"
    THEN Continue(g, user, pairs, 0)
    ELSE IF CompanyIsFrozen(user.company_id)
    THEN Reject(g, user, pairs, 403, "COMPANY_FROZEN", NoPair, 1)
    ELSE IF UserMissingOrInactive(user.id)
    THEN Reject(g, user, pairs, 403, "USER_INACTIVE", NoPair, 2)
    ELSE IF Cardinality(RolePermissionRows(user.id, moduleKey, permissionKey)) > 0
    THEN Continue(g, user, pairs, 3)
    ELSE IF Cardinality(OverrideRows(user.id, moduleKey, permissionKey)) > 0
    THEN Continue(g, user, pairs, 4)
    ELSE Reject(g, user, pairs, 403, "PERMISSION_DENIED",
                <<moduleKey, permissionKey>>, 4)

(* The for loop of requireAnyPermission from the i-th pair on, after       *)
(* `reads` queries.                                                        *)
RECURSIVE AnyLoop(_, _, _, _)
AnyLoop(user, pairs, i, reads) ==
    LET g == "requireAnyPermission" IN
    IF i > Len(pairs)
    THEN Reject(g, user, pairs, 403, "PERMISSION_DENIED", NoPair, reads)
    ELSE IF Cardinality(AnyRolePermissionRows(user.id, pairs[i][1], pairs[i][2])) > 0
    THEN Continue(g, user, pairs, reads + 1)
    ELSE IF Cardinality(AnyOverrideRows(user.id, pairs[i][1], pairs[i][2])) > 0
    THEN Continue(g, user, pairs, reads + 2)
    ELSE AnyLoop(user, pairs, i + 1, reads + 2)

requireAnyPermission(user, pairs) ==
    LET g == "requireAnyPermission" IN
    IF Unauthenticated(user)
    THEN Reject(g, user, pairs, 401, "UNAUTHORIZED", NoPair, 0)
    ELSE IF user.userType = "owner"
    THEN Continue(g, user, pairs, 0)
    ELSE AnyLoop(user, pairs, 1, 0)

(* The for loop of requireAllPermissions from the i-th pair on.            *)
RECURSIVE AllLoop(_, _, _, _)
AllLoop(user, pairs, i, reads) ==
    LET g == "requireAllPermissions" IN
    IF i > Len(pairs)
    THEN Continue(g, user, pairs, reads)
    ELSE IF Cardinality(AllRolePermissionRows(user.id, pairs[i][1], pairs[i][2])) > 0
    THEN AllLoop(user, pairs, i + 1, reads + 1)
    ELSE IF Cardinality(AllOverrideRows(user.id, pairs[i][1], pairs[i][2])) > 0
    THEN AllLoop(user, pairs, i + 1, reads + 2)
    ELSE Reject(g, user, pairs, 403, "PERMISSION_DENIED", pairs[i], reads + 2)

requireAllPermissions(user, pairs) ==
    LET g == "requireAllPermissions" IN
    IF Unauthenticated(user)
    THEN Reject(g, user, pairs, 401, "UNAUTHORIZED", NoPair, 0)
    ELSE IF user.userType = "owner"
    THEN Continue(g, user, pairs, 0)
    ELSE AllLoop(user, pairs, 1, 0)

requireOwner(user) ==
    LET g == "requireOwner" IN
    IF Unauthenticated(user)
    THEN Reject(g, user, << >>, 401, "UNAUTHORIZED", NoPair, 0)
    ELSE IF user.userType = "owner"
    THEN Continue(g, user, << >>, 0)
    ELSE IF Cardinality(IsOwnerRows(user.id, user.company_id)) > 0
    THEN Continue(g, user, << >>, 1)
    ELSE Reject(g, user, << >>, 403, "OWNER_REQUIRED", NoPair, 1)

(* ---------------------------------------------------------------------- *)
(* The gates as steps: a request reaches a gate, the gate answers          *)
(* ---------------------------------------------------------------------- *)
FailPoints == 0..(MaxPairs + MaxPairs)

RequirePermission ==
    /\ res = NoRes
    /\ \E user \in Principals, pair \in Pairs, failAt \in FailPoints :
          res' = CatchBlock(requirePermission(user, pair[1], pair[2]), failAt,
                            "PERMISSION_CHECK_ERROR")
    /\ UNCHANGED <<store, now, inflight>>

RequireAnyPermission ==
    /\ res = NoRes
    /\ \E user \in Principals, pairs \in PairLists, failAt \in FailPoints :
          res' = CatchBlock(requireAnyPermission(user, pairs), failAt,
                            "PERMISSION_CHECK_ERROR")
    /\ UNCHANGED <<store, now, inflight>>

RequireAllPermissions ==
    /\ res = NoRes
    /\ \E user \in Principals, pairs \in PairLists, failAt \in FailPoints :
          res' = CatchBlock(requireAllPermissions(user, pairs), failAt,
                            "PERMISSION_CHECK_ERROR")
    /\ UNCHANGED <<store, now, inflight>>

RequireOwner ==
    /\ res = NoRes
    /\ \E user \in Principals, failAt \in FailPoints :
          res' = CatchBlock(requireOwner(user), failAt, "OWNER_CHECK_ERROR")
    /\ UNCHANGED <<store, now, inflight>>

(* The request is over (next() handed it on, or the JSON answer was sent). *)
EndRequest ==
    /\ res # NoRes
    /\ res' = NoRes
    /\ UNCHANGED <<store, now, inflight>>

(* The database clock behind NOW() advances between requests.              *)
Tick ==
    /\ res = NoRes
    /\ now < MaxTime
    /\ now' = now + 1
    /\ UNCHANGED <<store, inflight, res>>

(* ---------------------------------------------------------------------- *)
(* Store states the gates are checked against                              *)
(* ---------------------------------------------------------------------- *)
RoleRow(companyId, roleKey, roleName, isSystem, isActive, createdBy) ==
    [company_id |-> companyId, role_key |-> roleKey, role_name |-> roleName,
     is_system_role |-> isSystem, is_active |-> isActive, created_by |-> createdBy]

Binding(roleId, permissionId, canGrant) ==
    [company_role_id |-> roleId, system_permission_id |-> permissionId,
     can_grant |-> canGrant]

(* SQL NULL in the text column override_reason.                            *)
NoReason == "<null>"

(* One row of user_permission_overrides.                                   *)
OverrideRow(userId, permissionId, isGranted, expiresAt, reason, overriddenBy) ==
    [user_id |-> userId, system_permission_id |-> permissionId,
     is_granted |-> isGranted, expires_at |-> expiresAt,
     override_reason |-> reason, overridden_by |-> overriddenBy]

(* A row stored without a reason by a request with ?id=2.                  *)
Override(userId, permissionId, isGranted, expiresAt) ==
    OverrideRow(userId, permissionId, isGranted, expiresAt, NoReason, 2)

Catalog(moduleOff, permissionOff) ==
    /\ system_modules =
         [m \in ModuleIds |-> [module_key |-> ModuleKeyOf[m], is_active |-> m # moduleOff]]
    /\ system_permissions =
         [p \in PermissionIds |->
            [module_id |-> ModuleOfPermission[p], permission_key |-> PermissionKeyOf[p],
             is_active |-> p # permissionOff]]

GateInit ==
    /\ owners = {1}
    /\ \E frozen \in BOOLEAN :
          companies = [c \in CompanyIds |->
                         [owner_id |-> 1, is_active |-> TRUE,
                          is_frozen |-> (c = 1 /\ frozen)]]
    /\ \E active \in BOOLEAN, r \in {NULL, 1, 2} :
          users = [u \in {1} |->
                     [company_id |-> 1, is_active |-> active, assigned_role_id |-> r]]
    /\ \E roleActive \in BOOLEAN :
          company_roles =
             [id \in {1, 2} |->
                IF id = 1 THEN RoleRow(1, "manager", "Manager", 0, roleActive, 1)
                          ELSE RoleRow(1, "clerk", "Clerk", 0, TRUE, 1)]
    /\ role_permissions \in { {Binding(1, 1, FALSE)},
                              {Binding(1, 1, FALSE), Binding(2, 2, FALSE)} }
    /\ user_permission_overrides \in
          { {}, {Override(1, 2, TRUE, 1)}, {Override(1, 2, TRUE, NULL)},
            {Override(1, 2, FALSE, NULL)} }
    /\ permission_audit_log = << >>
    /\ \E off \in { <<NULL, NULL>>, <<1, NULL>>, <<NULL, 1>> } : Catalog(off[1], off[2])
    /\ nextRoleId = 3
    /\ now = 0
    /\ inflight = NoTxn
    /\ res = NoRes

GateNext ==
    \/ RequirePermission
    \/ RequireAnyPermission
    \/ RequireAllPermissions
    \/ RequireOwner
    \/ EndRequest
    \/ Tick

GateSpec == GateInit /\ [][GateNext]_vars

(* ---------------------------------------------------------------------- *)
(* controllers/rbacController.js: helpers                                  *)
(* ---------------------------------------------------------------------- *)

(* The callers of the RBAC routes: router.use(authenticateToken) has set   *)
(* req.user to an owner or to a company user.                              *)
Callers == {OwnerPrincipal, UserPrincipal(1)}

(* RBACController.isOwner(req)                                             *)
isOwner(user) == user # NoUser /\ user.userType = "owner"

(* Helpers.validateId: parseInt(id) must be a positive integer.            *)
validateId(id) == id > 0

(* What a handler answers: ResponseHandler.success / created, or           *)
(* handleError for the error thrown. code abbreviates the message.         *)
Answer(op, user, status, code, id, companyId, count) ==
    [gate |-> op, user |-> user, pairs |-> << >>,
     outcome |-> (IF status < 400 THEN "success" ELSE "error"),
     status |-> status, code |-> code, named |-> NoPair, reads |-> 0,
     failed |-> FALSE, id |-> id, company_id |-> companyId, count |-> count,
     skipped |-> 0]

(* Variant of RoleInCompany that looks the role up by id alone.            *)
RoleInCompany_AnyCompany(roleId, companyId) == roleId \in DOMAIN company_roles

(* "SELECT * FROM company_roles WHERE id = ? AND company_id = ?"           *)
RoleInCompany(roleId, companyId) ==
    roleId \in DOMAIN company_roles /\ company_roles[roleId].company_id = companyId

(* "SELECT * FROM users WHERE id = ? AND company_id = ?"                   *)
UserInCompany(userId, companyId) ==
    userId \in DOMAIN users /\ users[userId].company_id = companyId

(* Variant of IsSystemRole that never recognises a system role.            *)
IsSystemRole_Never(row) == FALSE

(* existingRole[0].is_system_role === 1                                    *)
IsSystemRole(row) == row.is_system_role = 1

(* Variant of UsersWithRole that finds no holder.                          *)
UsersWithRole_None(roleId) == {}

(* "SELECT COUNT FROM users WHERE assigned_role_id = ?"        *)
UsersWithRole(roleId) ==
    { u \in DOMAIN users : users[u].assigned_role_id = roleId }

(* checkUserPermission begins with `if (userType === "owner")`, and no     *)
(* binding named userType is in scope of the static method: evaluating the *)
(* condition raises ReferenceError before any query runs.                  *)
UserTypeIsDeclared == FALSE

(* RBACController.checkUserPermission(connection, userId, moduleKey,       *)
(* permissionKey): "ReferenceError", or the answer of its role query.      *)
checkUserPermission(userId, moduleKey, permissionKey) ==
    IF ~UserTypeIsDeclared
    THEN "ReferenceError"
    ELSE IF Cardinality(RolePermissionRows(userId, moduleKey, permissionKey)) > 0
    THEN "true"
    ELSE "false"

(* The "Verify permission" block of the handlers: skipped for an owner,    *)
(* else checkUserPermission with req.query.id. "ok", "denied" or "throws". *)
VerifyPermission(user, queryId, moduleKey, permissionKey) ==
    IF isOwner(user)
    THEN "ok"
    ELSE LET has == checkUserPermission(queryId, moduleKey, permissionKey) IN
         IF has = "ReferenceError" THEN "throws"
         ELSE IF has = "true" THEN "ok" ELSE "denied"

(* One row of permission_audit_log.                                        *)
AuditRow(companyId, actionType, roleId, userId, performedBy) ==
    [company_id |-> companyId, action_type |-> actionType,
     target_role_id |-> roleId, target_user_id |-> userId,
     performed_by |-> performedBy]

(* String conversions of the role key, on the keys the requests send.      *)
RoleKeyInputs == {"", "manager", "Manager", "clerk", " clerk "}
Trim(str) ==
    IF str = " clerk " THEN "clerk" ELSE IF str = " leave cover " THEN "leave cover" ELSE str
ToLowerCase(str) == IF str = "Manager" THEN "manager" ELSE str

(* "role_key = ?" under the schema's collation utf8mb4_general_ci, which   *)
(* compares without regard to letter case.                                 *)
SqlEqualsCI(a, b) == ToLowerCase(a) = ToLowerCase(b)

(* "SELECT id FROM company_roles WHERE role_key = ? AND company_id = ?"    *)
RolesWithKey(roleKey, companyId) ==
    { r \in DOMAIN company_roles :
        /\ SqlEqualsCI(company_roles[r].role_key, roleKey)
        /\ company_roles[r].company_id = companyId }

(* A table with one row added / one row removed.                           *)
WithRow(table, id, row) ==
    [k \in DOMAIN table \cup {id} |-> IF k = id THEN row ELSE table[k]]
WithoutRow(table, id) == [k \in DOMAIN table \ {id} |-> table[k]]

(* What a handler leaves behind: its answer and the tables after commit    *)
(* (after rollback: as they were).                                         *)
Outcome(answer, roles, bindings, userRows, audit, nextId) ==
    [res |-> answer, company_roles |-> roles, role_permissions |-> bindings,
     users |-> userRows, permission_audit_log |-> audit, nextRoleId |-> nextId]

(* catch: connection.rollback(), handleError(error, res).                  *)
RolledBack(answer) ==
    Outcome(answer, company_roles, role_permissions, users,
            permission_audit_log, nextRoleId)

(* RBACController.checkUserCanGrantPermission(connection, userId,          *)
(* permissionId, companyId): it too begins with the undeclared userType.   *)
checkUserCanGrantPermission(userId, permissionId, companyId) ==
    IF ~UserTypeIsDeclared
    THEN "ReferenceError"
    ELSE IF Cardinality(IsOwnerRows(userId, companyId)) > 0
    THEN "true"
    ELSE IF \E rp \in role_permissions :
               /\ userId \in DOMAIN users
               /\ users[userId].assigned_role_id = rp.company_role_id
               /\ rp.company_role_id \in DOMAIN company_roles
               /\ rp.system_permission_id = permissionId
               /\ rp.can_grant
               /\ users[userId].is_active
               /\ company_roles[rp.company_role_id].is_active
    THEN "true"
    ELSE "false"

(* const canGrant = isOwner(req) || await checkUserCanGrantPermission(...) *)
CanGrant(user, queryId, permissionId, companyId) ==
    IF isOwner(user) THEN "true"
    ELSE checkUserCanGrantPermission(queryId, permissionId, companyId)

(* ---------------------------------------------------------------------- *)
(* controllers/rbacController.js: role management handlers                 *)
(* ---------------------------------------------------------------------- *)

(* Variant of StoredRoleKey that stores the key as the request sent it.    *)
StoredRoleKey_Raw(roleKey) == roleKey

(* role_key: role_key.trim().toLowerCase()                                 *)
StoredRoleKey(roleKey) == ToLowerCase(Trim(roleKey))

(* Variant of RoleKeyIsTaken for a table without the unique key.           *)
RoleKeyIsTaken_NoKey(roleKey, companyId) == FALSE

(* The unique key of company_roles on (company_id, role_key): an INSERT of *)
(* a key the company already has raises ER_DUP_ENTRY.                      *)
RoleKeyIsTaken(roleKey, companyId) == RolesWithKey(roleKey, companyId) # {}

(* Variant of BindingIsTaken for a table without the unique key.           *)
BindingIsTaken_NoKey(bindings, roleId, permissionId) == FALSE

(* The unique key of role_permissions on (company_role_id,                 *)
(* system_permission_id): an INSERT of a pair the table already has raises *)
(* ER_DUP_ENTRY.                                                           *)
BindingIsTaken(bindings, roleId, permissionId) ==
    \E b \in bindings : /\ b.company_role_id = roleId
                        /\ b.system_permission_id = permissionId

(* catch after the INSERT into company_roles was attempted: the rows are   *)
(* rolled back, the AUTO_INCREMENT value the INSERT drew is not.           *)
RolledBackAfterInsert(answer) ==
    Outcome(answer, company_roles, role_permissions, users,
            permission_audit_log, nextRoleId + 1)

(* Variant of ReferencedRoleExists for tables without the foreign keys.    *)
ReferencedRoleExists_NoKey(roles, roleId) == TRUE

(* The foreign keys users.assigned_role_id and                             *)
(* role_permissions.company_role_id to company_roles.id: a row that names  *)
(* a role the table does not hold is refused with ER_NO_REFERENCED_ROW_2.  *)
ReferencedRoleExists(roles, roleId) == roleId \in DOMAIN roles

(* The same foreign key seen from company_roles: the DELETE of a role that *)
(* a users row names is refused with ER_ROW_IS_REFERENCED_2.               *)
RoleIsReferenced(userRows, roleId) ==
    \E u \in DOMAIN userRows : userRows[u].assigned_role_id = roleId

(* The permission loop of createRole from the i-th requested id on: a      *)
(* grantable id is inserted with can_grant = 0, the others are passed by.  *)
RECURSIVE CreateLoop(_, _, _, _, _, _, _)
CreateLoop(user, queryId, companyId, newRoleId, ids, i, bindings) ==
    IF i > Len(ids)
    THEN [threw |-> FALSE, code |-> "", bindings |-> bindings]
    ELSE LET can == CanGrant(user, queryId, ids[i], companyId) IN
         IF can = "ReferenceError"
         THEN [threw |-> TRUE, code |-> "REFERENCE_ERROR", bindings |-> bindings]
         ELSE IF can = "true" /\ BindingIsTaken(bindings, newRoleId, ids[i])
         THEN [threw |-> TRUE, code |-> "ER_DUP_ENTRY", bindings |-> bindings]
         ELSE CreateLoop(user, queryId, companyId, newRoleId, ids, i + 1,
                         IF can = "true"
                         THEN bindings \cup {Binding(newRoleId, ids[i], FALSE)}
                         ELSE bindings)

(* The answer of createRole, with the key and the ids the request sent.    *)
CreateAnswer(user, status, code, id, companyId, count, roleKey, permissionIds) ==
    Answer("createRole", user, status, code, id, companyId, count)
       @@ [role_key |-> roleKey, source_id |-> NULL, permission_ids |-> permissionIds]

(* createRole up to its INSERT: the required fields, the duplicate check   *)
(* and the permission check. The status it throws, or 0.                   *)
createRoleChecks(user, companyId, queryId, roleKey, roleName) ==
    LET verdict == VerifyPermission(user, queryId, "roles", "manage_roles") IN
    IF roleKey = "" \/ roleName = ""
    THEN [status |-> 400, code |-> "REQUIRED"]
    ELSE IF RolesWithKey(Trim(roleKey), companyId) # {}
    THEN [status |-> 409, code |-> "DUPLICATE_KEY"]
    ELSE IF verdict = "throws"
    THEN [status |-> 500, code |-> "REFERENCE_ERROR"]
    ELSE IF verdict = "denied"
    THEN [status |-> 403, code |-> "FORBIDDEN"]
    ELSE [status |-> 0, code |-> ""]

(* createRole from its INSERT into company_roles to the commit.            *)
createRoleWrites(user, companyId, queryId, roleKey, roleName, isSystemRole, permissionIds) ==
    LET newRoleId == nextRoleId
        row == RoleRow(companyId, StoredRoleKey(roleKey), Trim(roleName),
                       isSystemRole, TRUE, queryId)
        loop == CreateLoop(user, queryId, companyId, newRoleId, permissionIds, 1,
                           role_permissions)
    IN
    IF RoleKeyIsTaken(StoredRoleKey(roleKey), companyId)
    THEN RolledBackAfterInsert(CreateAnswer(user, 409, "ER_DUP_ENTRY", NULL, companyId,
                                            0, roleKey, permissionIds))
    ELSE IF loop.threw
    THEN RolledBackAfterInsert(CreateAnswer(user, IF loop.code = "ER_DUP_ENTRY"
                                                  THEN 409 ELSE 500,
                                            loop.code, NULL, companyId, 0, roleKey,
                                            permissionIds))
    ELSE Outcome(CreateAnswer(user, 201, "CREATED", newRoleId, companyId,
                        Cardinality({ b \in loop.bindings : b.company_role_id = newRoleId }),
                        roleKey, permissionIds),
                 WithRow(company_roles, newRoleId, row),
                 loop.bindings,
                 users,
                 Append(permission_audit_log,
                        AuditRow(companyId, "ROLE_CREATED", newRoleId, NULL, queryId)
                           @@ [permission_count |-> Len(permissionIds)]),
                 newRoleId + 1)

createRole(user, companyId, queryId, roleKey, roleName, isSystemRole, permissionIds) ==
    LET checks == createRoleChecks(user, companyId, queryId, roleKey, roleName) IN
    IF checks.status # 0
    THEN RolledBack(CreateAnswer(user, checks.status, checks.code, NULL, companyId, 0,
                                 roleKey, permissionIds))
    ELSE createRoleWrites(user, companyId, queryId, roleKey, roleName, isSystemRole,
                          permissionIds)

(* The columns updateRole deletes from the request body.                   *)
ImmutableFields ==
    {"id", "company_id", "role_key", "created_by", "created_at", "is_system_role"}

(* updateData without updated_at: the body minus the deleted columns.      *)
UpdateData(body) == [f \in DOMAIN body \ ImmutableFields |-> body[f]]

(* The column a key of updateData names in the SET clause that             *)
(* buildUpdateQuery builds from the keys as sent: MySQL matches column     *)
(* names without regard to letter case.                                    *)
ColumnNamed(field) == IF field = "ROLE_KEY" THEN "role_key" ELSE field

(* "UPDATE company_roles SET <field = ?, ...> WHERE id = ? AND company_id = ?" *)
UpdatedRow(row, updateData) ==
    [f \in DOMAIN row |->
       IF \E k \in DOMAIN updateData : ColumnNamed(k) = f
       THEN updateData[CHOOSE k \in DOMAIN updateData : ColumnNamed(k) = f]
       ELSE row[f]]

updateRole(user, id, companyId, queryId, body) ==
    LET op == "updateRole"
        verdict == VerifyPermission(user, queryId, "roles", "manage_roles")
        Ans(status, code) ==
            Answer(op, user, status, code, id, companyId, 0) @@ [body |-> body]
    IN
    IF ~validateId(id)
    THEN RolledBack(Ans(400, "INVALID_ID"))
    ELSE IF ~RoleInCompany(id, companyId)
    THEN RolledBack(Ans(404, "ROLE_NOT_FOUND"))
    ELSE IF IsSystemRole(company_roles[id])
    THEN RolledBack(Ans(403, "SYSTEM_ROLE"))
    ELSE IF verdict = "throws"
    THEN RolledBack(Ans(500, "REFERENCE_ERROR"))
    ELSE IF verdict = "denied"
    THEN RolledBack(Ans(403, "FORBIDDEN"))
    ELSE IF DOMAIN UpdateData(body) = {}
    THEN RolledBack(Ans(400, "NO_VALID_FIELDS"))
    ELSE Outcome(Ans(200, "UPDATED"),
                 [company_roles EXCEPT ![id] = UpdatedRow(@, UpdateData(body))],
                 role_permissions,
                 users,
                 Append(permission_audit_log,
                        AuditRow(companyId, "ROLE_UPDATED", id, NULL, queryId)),
                 nextRoleId)

(* deleteRole from its DELETE statements to the commit.                    *)
deleteRoleWrites(user, id, companyId, queryId) ==
    IF RoleIsReferenced(users, id)
    THEN RolledBack(Answer("deleteRole", user, 500, "ER_ROW_IS_REFERENCED", id,
                           companyId, 0))
    ELSE Outcome(Answer("deleteRole", user, 200, "DELETED", id, companyId, 0),
                 WithoutRow(company_roles, id),
                 { b \in role_permissions : b.company_role_id # id },
                 users,
                 Append(permission_audit_log,
                        AuditRow(companyId, "ROLE_DELETED", id, NULL, queryId)),
                 nextRoleId)

deleteRole(user, id, companyId, queryId) ==
    LET op == "deleteRole"
        verdict == VerifyPermission(user, queryId, "roles", "manage_roles")
        holders == Cardinality(UsersWithRole(id))
    IN
    IF ~validateId(id)
    THEN RolledBack(Answer(op, user, 400, "INVALID_ID", id, companyId, 0))
    ELSE IF ~RoleInCompany(id, companyId)
    THEN RolledBack(Answer(op, user, 404, "ROLE_NOT_FOUND", id, companyId, 0))
    ELSE IF IsSystemRole(company_roles[id])
    THEN RolledBack(Answer(op, user, 403, "SYSTEM_ROLE", id, companyId, 0))
    ELSE IF holders > 0
    THEN RolledBack(Answer(op, user, 400, "ROLE_IN_USE", id, companyId, holders))
    ELSE IF verdict = "throws"
    THEN RolledBack(Answer(op, user, 500, "REFERENCE_ERROR", id, companyId, 0))
    ELSE IF verdict = "denied"
    THEN RolledBack(Answer(op, user, 403, "FORBIDDEN", id, companyId, 0))
    ELSE deleteRoleWrites(user, id, companyId, queryId)

(* cloneRole: no permission is verified and no audit row is written. The   *)
(* INSERT names no is_system_role, so the copy takes the column default.   *)
cloneRole(user, id, companyId, queryId, newRoleKey, newRoleName, includeCanGrant) ==
    LET op == "cloneRole"
        newRoleId == nextRoleId
        row == RoleRow(companyId, StoredRoleKey(newRoleKey), Trim(newRoleName),
                       0, TRUE, queryId)
        copies == { Binding(newRoleId, b.system_permission_id,
                            includeCanGrant /\ b.can_grant) :
                      b \in { x \in role_permissions : x.company_role_id = id } }
        Ans(status, code, newId) ==
            Answer(op, user, status, code, newId, companyId, 0)
               @@ [role_key |-> newRoleKey, source_id |-> id]
    IN
    IF ~validateId(id)
    THEN RolledBack(Ans(400, "INVALID_ID", id))
    ELSE IF newRoleKey = "" \/ newRoleName = ""
    THEN RolledBack(Ans(400, "REQUIRED", id))
    ELSE IF ~RoleInCompany(id, companyId)
    THEN RolledBack(Ans(404, "ROLE_NOT_FOUND", id))
    ELSE IF RolesWithKey(Trim(newRoleKey), companyId) # {}
    THEN RolledBack(Ans(409, "DUPLICATE_KEY", id))
    ELSE IF RoleKeyIsTaken(StoredRoleKey(newRoleKey), companyId)
    THEN RolledBackAfterInsert(Ans(409, "ER_DUP_ENTRY", id))
    ELSE Outcome(Ans(201, "CLONED", newRoleId),
                 WithRow(company_roles, newRoleId, row),
                 role_permissions \cup copies,
                 users,
                 permission_audit_log,
                 newRoleId + 1)

(* ---------------------------------------------------------------------- *)
(* controllers/rbacController.js: bindings and user roles                  *)
(* ---------------------------------------------------------------------- *)

(* The loop of assignPermissionsToRole from the i-th requested id on: an   *)
(* id the caller cannot grant is counted as skipped; a grantable id is     *)
(* inserted and counted as assigned unless the role already has a binding  *)
(* for it.                                                                 *)
RECURSIVE AssignLoop(_, _, _, _, _, _, _, _, _, _)
AssignLoop(user, queryId, companyId, roleId, ids, canGrantFlag, i, bindings, assigned, skipped) ==
    IF i > Len(ids)
    THEN [threw |-> FALSE, bindings |-> bindings, assigned |-> assigned,
          skipped |-> skipped]
    ELSE LET can == CanGrant(user, queryId, ids[i], companyId)
             existing == { b \in bindings : /\ b.company_role_id = roleId
                                            /\ b.system_permission_id = ids[i] }
         IN
         IF can = "ReferenceError"
         THEN [threw |-> TRUE, bindings |-> bindings, assigned |-> assigned,
               skipped |-> skipped]
         ELSE IF can = "false"
         THEN AssignLoop(user, queryId, companyId, roleId, ids, canGrantFlag,
                         i + 1, bindings, assigned, skipped + 1)
         ELSE IF existing = {}
         THEN AssignLoop(user, queryId, companyId, roleId, ids, canGrantFlag,
                         i + 1, bindings \cup {Binding(roleId, ids[i], canGrantFlag)},
                         assigned + 1, skipped)
         ELSE AssignLoop(user, queryId, companyId, roleId, ids, canGrantFlag,
                         i + 1, bindings, assigned, skipped)

assignPermissionsToRole(user, id, companyId, queryId, permissionIds, canGrantFlag) ==
    LET op == "assignPermissionsToRole"
        verdict == VerifyPermission(user, queryId, "roles", "assign_permissions")
        loop == AssignLoop(user, queryId, companyId, id, permissionIds, canGrantFlag,
                           1, role_permissions, 0, 0)
        (* the answer, kept with the permission_ids of its request *)
        Ans(status, code, count) ==
            Answer(op, user, status, code, id, companyId, count)
               @@ [total |-> Len(permissionIds), permission_ids |-> permissionIds]
    IN
    IF ~validateId(id)
    THEN RolledBack(Ans(400, "INVALID_ID", 0))
    ELSE IF Len(permissionIds) = 0
    THEN RolledBack(Ans(400, "REQUIRED", 0))
    ELSE IF ~RoleInCompany(id, companyId)
    THEN RolledBack(Ans(404, "ROLE_NOT_FOUND", 0))
    ELSE IF verdict = "throws"
    THEN RolledBack(Ans(500, "REFERENCE_ERROR", 0))
    ELSE IF verdict = "denied"
    THEN RolledBack(Ans(403, "FORBIDDEN", 0))
    ELSE IF loop.threw
    THEN RolledBack(Ans(500, "REFERENCE_ERROR", 0))
    ELSE Outcome([Ans(200, "ASSIGNED", loop.assigned) EXCEPT !.skipped = loop.skipped],
                 company_roles,
                 loop.bindings,
                 users,
                 Append(permission_audit_log,
                        AuditRow(companyId, "PERMISSION_GRANTED", id, NULL, queryId)),
                 nextRoleId)

revokePermissionsFromRole(user, id, companyId, queryId, permissionIds) ==
    LET op == "revokePermissionsFromRole"
        verdict == VerifyPermission(user, queryId, "roles", "assign_permissions")
        affected == { b \in role_permissions :
                        /\ b.company_role_id = id
                        /\ \E i \in 1..Len(permissionIds) :
                              b.system_permission_id = permissionIds[i] }
    IN
    IF ~validateId(id)
    THEN RolledBack(Answer(op, user, 400, "INVALID_ID", id, companyId, 0))
    ELSE IF Len(permissionIds) = 0
    THEN RolledBack(Answer(op, user, 400, "REQUIRED", id, companyId, 0))
    ELSE IF ~RoleInCompany(id, companyId)
    THEN RolledBack(Answer(op, user, 404, "ROLE_NOT_FOUND", id, companyId, 0))
    ELSE IF verdict = "throws"
    THEN RolledBack(Answer(op, user, 500, "REFERENCE_ERROR", id, companyId, 0))
    ELSE IF verdict = "denied"
    THEN RolledBack(Answer(op, user, 403, "FORBIDDEN", id, companyId, 0))
    ELSE Outcome(Answer(op, user, 200, "REVOKED", id, companyId, Cardinality(affected)),
                 company_roles,
                 role_permissions \ affected,
                 users,
                 Append(permission_audit_log,
                        AuditRow(companyId, "PERMISSION_REVOKED", id, NULL, queryId)),
                 nextRoleId)

(* assignRoleToUser from its UPDATE of users to the commit.                *)
assignRoleWrites(user, id, companyId, queryId, roleId) ==
    LET Ans(status, code, count) ==
            Answer("assignRoleToUser", user, status, code, id, companyId, count)
               @@ [role_id |-> roleId]
    IN
    IF ~ReferencedRoleExists(company_roles, roleId)
    THEN RolledBack(Ans(400, "ER_NO_REFERENCED_ROW", 0))
    ELSE Outcome(Ans(200, "ROLE_ASSIGNED", roleId),
                 company_roles,
                 role_permissions,
                 [users EXCEPT ![id].assigned_role_id = roleId],
                 Append(permission_audit_log,
                        AuditRow(companyId, "USER_ROLE_ASSIGNED", roleId, id, queryId)),
                 nextRoleId)

assignRoleToUser(user, id, companyId, queryId, roleId) ==
    LET op == "assignRoleToUser"
        verdict == VerifyPermission(user, queryId, "users", "assign_roles")
        (* the answer, kept with the role_id of its request *)
        Ans(status, code, count) ==
            Answer(op, user, status, code, id, companyId, count) @@ [role_id |-> roleId]
    IN
    IF ~validateId(id)
    THEN RolledBack(Ans(400, "INVALID_ID", 0))
    ELSE IF roleId = NULL
    THEN RolledBack(Ans(400, "REQUIRED", 0))
    ELSE IF ~UserInCompany(id, companyId)
    THEN RolledBack(Ans(404, "USER_NOT_FOUND", 0))
    ELSE IF ~RoleInCompany(roleId, companyId)
    THEN RolledBack(Ans(404, "ROLE_NOT_FOUND", 0))
    ELSE IF verdict = "throws"
    THEN RolledBack(Ans(500, "REFERENCE_ERROR", 0))
    ELSE IF verdict = "denied"
    THEN RolledBack(Ans(403, "FORBIDDEN", 0))
    ELSE assignRoleWrites(user, id, companyId, queryId, roleId)

(* Variant of revokeRoleFromUser that records the revocation and leaves    *)
(* assigned_role_id as it was.                                             *)
revokeRoleFromUser_KeepsRole(user, id, companyId, queryId) ==
    IF isOwner(user) /\ validateId(id) /\ UserInCompany(id, companyId)
    THEN Outcome(Answer("revokeRoleFromUser", user, 200, "ROLE_REVOKED", id, companyId, 0),
                 company_roles, role_permissions, users,
                 Append(permission_audit_log,
                        AuditRow(companyId, "USER_ROLE_REVOKED", NULL, id, queryId)),
                 nextRoleId)
    ELSE RolledBack(Answer("revokeRoleFromUser", user, 500, "REFERENCE_ERROR", id,
                           companyId, 0))

revokeRoleFromUser(user, id, companyId, queryId) ==
    LET op == "revokeRoleFromUser"
        verdict == VerifyPermission(user, queryId, "users", "assign_roles")
    IN
    IF ~validateId(id)
    THEN RolledBack(Answer(op, user, 400, "INVALID_ID", id, companyId, 0))
    ELSE IF ~UserInCompany(id, companyId)
    THEN RolledBack(Answer(op, user, 404, "USER_NOT_FOUND", id, companyId, 0))
    ELSE IF verdict = "throws"
    THEN RolledBack(Answer(op, user, 500, "REFERENCE_ERROR", id, companyId, 0))
    ELSE IF verdict = "denied"
    THEN RolledBack(Answer(op, user, 403, "FORBIDDEN", id, companyId, 0))
    ELSE Outcome(Answer(op, user, 200, "ROLE_REVOKED", id, companyId, 0),
                 company_roles,
                 role_permissions,
                 [users EXCEPT ![id].assigned_role_id = NULL],
                 Append(permission_audit_log,
                        AuditRow(companyId, "USER_ROLE_REVOKED", NULL, id, queryId)),
                 nextRoleId)

(* ---------------------------------------------------------------------- *)
(* The RBAC routes as steps: one request, handled as one transaction       *)
(* ---------------------------------------------------------------------- *)
RoleIdInputs == 0..MaxRoles
(* req.query.id and req.query.company_id come from the query string of the *)
(* request, not from req.user; the requests here carry the id of user 2.   *)
QueryIds == {2}
UserIdInputs == {0} \cup UserIds
RoleNameInputs == {"Clerk"}
PermissionIdLists == { << >>, <<1>>, <<1, 2>> }
RoleBodies == { [is_active |-> FALSE],
                [role_key |-> "other", is_system_role |-> 1, created_by |-> 2,
                 created_at |-> 1],
                [role_name |-> "Renamed", is_system_role |-> 1, company_id |-> 2],
                [ROLE_KEY |-> "other"] }

(* The handler committed or rolled back: the tables and the answer after   *)
(* it.                                                                     *)
Written(o) ==
    /\ res' = o.res
    /\ company_roles' = o.company_roles
    /\ role_permissions' = o.role_permissions
    /\ users' = o.users
    /\ permission_audit_log' = o.permission_audit_log
    /\ nextRoleId' = o.nextRoleId
    /\ UNCHANGED <<owners, companies, user_permission_overrides, system_modules,
                   system_permissions, now>>

(* The handler ran alone on its connection.                                *)
Committed(o) == Written(o) /\ UNCHANGED inflight

(* A committing handler runs only while the model's bounds on the audit    *)
(* log and on role ids leave room.                                         *)
Handled(o) ==
    /\ o.res.outcome = "success" => Len(o.permission_audit_log) <= MaxAudit
    /\ o.nextRoleId <= MaxRoles + 1
    /\ Committed(o)

CreateRole ==
    /\ res = NoRes
    /\ \E user \in Callers, companyId \in CompanyIds, queryId \in QueryIds,
          roleKey \in RoleKeyInputs, roleName \in RoleNameInputs,
          isSystemRole \in {0, 1}, permissionIds \in PermissionIdLists :
          Handled(createRole(user, companyId, queryId, roleKey, roleName,
                             isSystemRole, permissionIds))

UpdateRole ==
    /\ res = NoRes
    /\ \E user \in Callers, id \in RoleIdInputs, companyId \in CompanyIds,
          queryId \in QueryIds, body \in RoleBodies :
          Handled(updateRole(user, id, companyId, queryId, body))

DeleteRole ==
    /\ res = NoRes
    /\ \E user \in Callers, id \in RoleIdInputs, companyId \in CompanyIds,
          queryId \in QueryIds :
          Handled(deleteRole(user, id, companyId, queryId))

CloneRole ==
    /\ res = NoRes
    /\ \E user \in Callers, id \in RoleIdInputs, companyId \in CompanyIds,
          queryId \in QueryIds, newRoleKey \in RoleKeyInputs,
          newRoleName \in RoleNameInputs, includeCanGrant \in BOOLEAN :
          Handled(cloneRole(user, id, companyId, queryId, newRoleKey, newRoleName,
                            includeCanGrant))

AssignPermissionsToRole ==
    /\ res = NoRes
    /\ \E user \in Callers, id \in RoleIdInputs, companyId \in CompanyIds,
          queryId \in QueryIds, permissionIds \in PermissionIdLists,
          canGrantFlag \in BOOLEAN :
          Handled(assignPermissionsToRole(user, id, companyId, queryId,
                                          permissionIds, canGrantFlag))

RevokePermissionsFromRole ==
    /\ res = NoRes
    /\ \E user \in Callers, id \in RoleIdInputs, companyId \in CompanyIds,
          queryId \in QueryIds, permissionIds \in PermissionIdLists :
          Handled(revokePermissionsFromRole(user, id, companyId, queryId,
                                            permissionIds))

AssignRoleToUser ==
    /\ res = NoRes
    /\ \E user \in Callers, id \in UserIdInputs, companyId \in CompanyIds,
          queryId \in QueryIds, roleId \in RoleIdInputs :
          Handled(assignRoleToUser(user, id, companyId, queryId, roleId))

RevokeRoleFromUser ==
    /\ res = NoRes
    /\ \E user \in Callers, id \in UserIdInputs, companyId \in CompanyIds,
          queryId \in QueryIds :
          Handled(revokeRoleFromUser(user, id, companyId, queryId))

(* The store the RBAC routes start from: company 1 with the system role    *)
(* "admin" held by user 1 and the role "manager" held by user 2.           *)
Init ==
    /\ owners = {1}
    /\ companies = [c \in CompanyIds |->
                      [owner_id |-> 1, is_active |-> TRUE, is_frozen |-> FALSE]]
    /\ users = [u \in UserIds |->
                  [company_id |-> 1, is_active |-> TRUE, assigned_role_id |-> u]]
    /\ company_roles =
          [id \in {1, 2} |->
             IF id = 1 THEN RoleRow(1, "admin", "Admin", 1, TRUE, 1)
                       ELSE RoleRow(1, "manager", "Manager", 0, TRUE, 1)]
    /\ role_permissions = {Binding(1, 1, TRUE), Binding(2, 2, FALSE)}
    /\ user_permission_overrides = {}
    /\ permission_audit_log = << >>
    /\ Catalog(NULL, NULL)
    /\ nextRoleId = 3
    /\ now = 0
    /\ inflight = NoTxn
    /\ res = NoRes

Next ==
    \/ CreateRole
    \/ UpdateRole
    \/ DeleteRole
    \/ CloneRole
    \/ AssignPermissionsToRole
    \/ RevokePermissionsFromRole
    \/ AssignRoleToUser
    \/ RevokeRoleFromUser
    \/ EndRequest

Spec == Init /\ [][Next]_vars

(* ---------------------------------------------------------------------- *)
(* A client sending the same assignPermissions request a second time       *)
(* ---------------------------------------------------------------------- *)

(* POST /roles/:id/permissions sent again, right after its successful      *)
(* answer, by the same caller with the same role id, company and           *)
(* permission_ids.                                                         *)
RepeatAssignPermissions ==
    /\ res.gate = "assignPermissionsToRole"
    /\ res.outcome = "success"
    /\ \E queryId \in QueryIds, canGrantFlag \in BOOLEAN :
          LET o == assignPermissionsToRole(res.user, res.id, res.company_id, queryId,
                                           res.permission_ids, canGrantFlag)
          IN /\ Len(o.permission_audit_log) <= MaxAudit + 1
             /\ Committed(o)

AssignNext ==
    \/ AssignPermissionsToRole
    \/ RevokePermissionsFromRole
    \/ RepeatAssignPermissions
    \/ EndRequest

AssignSpec == Init /\ [][AssignNext]_vars

(* ---------------------------------------------------------------------- *)
(* Company users managing roles: the query string carries the caller's own *)
(* id. User 1 holds the role "admin", bound to (roles, manage_roles) with  *)
(* can_grant = 1; user 2 holds "manager", bound to (orders,                *)
(* view_all_orders) with can_grant = 0.                                    *)
(* ---------------------------------------------------------------------- *)

(* POST /roles from a company user.                                        *)
CreateRoleAsUser ==
    /\ res = NoRes
    /\ \E u \in UserIds, companyId \in CompanyIds, roleKey \in RoleKeyInputs,
          roleName \in RoleNameInputs, permissionIds \in PermissionIdLists :
          Handled(createRole(UserPrincipal(u), companyId, u, roleKey, roleName, 0,
                             permissionIds))

(* POST /roles/:id/permissions from a company user.                        *)
AssignPermissionsAsUser ==
    /\ res = NoRes
    /\ \E u \in UserIds, id \in RoleIdInputs, companyId \in CompanyIds,
          permissionIds \in PermissionIdLists \cup {<<2>>}, canGrantFlag \in BOOLEAN :
          Handled(assignPermissionsToRole(UserPrincipal(u), id, companyId, u,
                                          permissionIds, canGrantFlag))

UserNext ==
    \/ CreateRoleAsUser
    \/ AssignPermissionsAsUser
    \/ CreateRole
    \/ AssignPermissionsToRole
    \/ RevokePermissionsFromRole
    \/ EndRequest

UserSpec == Init /\ [][UserNext]_vars

(* ---------------------------------------------------------------------- *)
(* controllers/rbacController.js: permission overrides                     *)
(* ---------------------------------------------------------------------- *)

(* What an override handler leaves behind: its answer and the override     *)
(* table after commit (after rollback: as it was).                         *)
OverrideOutcome(answer, overrides) ==
    [res |-> answer, user_permission_overrides |-> overrides]

(* "SELECT id FROM user_permission_overrides WHERE user_id = ? AND         *)
(* system_permission_id = ?"                                               *)
OverridesOf(userId, permissionId) ==
    { upo \in user_permission_overrides :
        upo.user_id = userId /\ upo.system_permission_id = permissionId }

(* reason?.trim() || null                                                  *)
StoredReason(reason) == IF Trim(reason) = "" THEN NoReason ELSE Trim(reason)

(* RBACController.grantPermissionOverride: the row found for the user and  *)
(* the permission is updated (existing[0]), else a row is inserted;        *)
(* `expires_at || null` stores a missing expiry as NULL. No audit row is   *)
(* written.                                                                *)
grantPermissionOverride(user, id, companyId, queryId, permissionId, expiresAt, reason) ==
    LET op == "grantPermissionOverride"
        can == CanGrant(user, queryId, permissionId, companyId)
        existing == OverridesOf(id, permissionId)
        row == OverrideRow(id, permissionId, TRUE, expiresAt, StoredReason(reason),
                           queryId)
        updated == IF existing # {}
                   THEN (user_permission_overrides \ {CHOOSE e \in existing : TRUE})
                           \cup {row}
                   ELSE user_permission_overrides \cup {row}
        (* the answer, kept with the body and the query id of its request *)
        Ans(status, code) ==
            Answer(op, user, status, code, id, companyId, permissionId)
               @@ [permission_id |-> permissionId, expires_at |-> expiresAt,
                   reason |-> reason, query_id |-> queryId]
    IN
    IF ~validateId(id)
    THEN OverrideOutcome(Ans(400, "INVALID_ID"), user_permission_overrides)
    ELSE IF permissionId = NULL
    THEN OverrideOutcome(Ans(400, "REQUIRED"), user_permission_overrides)
    ELSE IF ~UserInCompany(id, companyId)
    THEN OverrideOutcome(Ans(404, "USER_NOT_FOUND"), user_permission_overrides)
    ELSE IF permissionId \notin DOMAIN system_permissions
    THEN OverrideOutcome(Ans(404, "PERMISSION_NOT_FOUND"), user_permission_overrides)
    ELSE IF can = "ReferenceError"
    THEN OverrideOutcome(Ans(500, "REFERENCE_ERROR"), user_permission_overrides)
    ELSE IF can = "false"
    THEN OverrideOutcome(Ans(403, "FORBIDDEN"), user_permission_overrides)
    ELSE OverrideOutcome(Ans(200, "OVERRIDE_GRANTED"), updated)

(* RBACController.revokePermissionOverride: deletes the rows of the user   *)
(* and the permission; revoked is the number of rows deleted.              *)
revokePermissionOverride(user, id, companyId, permissionId) ==
    LET op == "revokePermissionOverride"
        matching == OverridesOf(id, permissionId)
        Ans(status, code, count) ==
            Answer(op, user, status, code, id, companyId, count)
               @@ [permission_id |-> permissionId]
    IN
    IF ~validateId(id)
    THEN OverrideOutcome(Ans(400, "INVALID_ID", 0), user_permission_overrides)
    ELSE IF permissionId = NULL
    THEN OverrideOutcome(Ans(400, "REQUIRED", 0), user_permission_overrides)
    ELSE OverrideOutcome(Ans(200, "OVERRIDE_REVOKED", Cardinality(matching)),
                         user_permission_overrides \ matching)

(* The override handler committed or rolled back.                          *)
CommittedOverride(o) ==
    /\ res' = o.res
    /\ user_permission_overrides' = o.user_permission_overrides
    /\ UNCHANGED <<owners, companies, users, company_roles, role_permissions,
                   permission_audit_log, system_modules, system_permissions,
                   nextRoleId, now, inflight>>

PermissionIdInputs == 0..3
ExpiryInputs == {NULL} \cup Times

GrantPermissionOverride ==
    /\ res = NoRes
    /\ \E user \in Callers, id \in UserIdInputs, companyId \in CompanyIds,
          queryId \in QueryIds, permissionId \in PermissionIdInputs,
          expiresAt \in ExpiryInputs :
          CommittedOverride(grantPermissionOverride(user, id, companyId, queryId,
                                                    permissionId, expiresAt, ""))

RevokePermissionOverride ==
    /\ res = NoRes
    /\ \E user \in Callers, id \in UserIdInputs, companyId \in CompanyIds,
          permissionId \in PermissionIdInputs :
          CommittedOverride(revokePermissionOverride(user, id, companyId, permissionId))

(* ---------------------------------------------------------------------- *)
(* The life of one role: created in company 1, assigned to user 2 and      *)
(* revoked, with overrides and permission checks in between                *)
(* ---------------------------------------------------------------------- *)

(* As Handled, with room in the audit log for a creation, an assignment    *)
(* and a revocation.                                                       *)
HandledInLife(o) ==
    /\ o.res.outcome = "success" =>
          /\ Len(o.permission_audit_log) <= MaxAudit + 2
          /\ o.nextRoleId <= MaxRoles + 1
    /\ Committed(o)

(* POST /roles?company_id=1 for the role " clerk ".                        *)
CreateClerkRole ==
    /\ res = NoRes
    /\ \E user \in Callers, queryId \in QueryIds, permissionIds \in PermissionIdLists :
          HandledInLife(createRole(user, 1, queryId, " clerk ", "Clerk", 0,
                                   permissionIds))

(* POST /users/2/role?company_id=1                                         *)
AssignRoleToUser2 ==
    /\ res = NoRes
    /\ \E user \in Callers, queryId \in QueryIds, roleId \in RoleIdInputs :
          HandledInLife(assignRoleToUser(user, 2, 1, queryId, roleId))

(* DELETE /users/2/role?company_id=1                                       *)
RevokeRoleFromUser2 ==
    /\ res = NoRes
    /\ \E user \in Callers, queryId \in QueryIds :
          HandledInLife(revokeRoleFromUser(user, 2, 1, queryId))

(* POST /users/2/permissions/override?company_id=1                         *)
GrantOverrideToUser2 ==
    /\ res = NoRes
    /\ \E user \in Callers, queryId \in QueryIds, permissionId \in PermissionIds,
          expiresAt \in ExpiryInputs :
          CommittedOverride(grantPermissionOverride(user, 2, 1, queryId,
                                                    permissionId, expiresAt, ""))

LifeNext ==
    \/ CreateClerkRole
    \/ AssignRoleToUser2
    \/ RevokeRoleFromUser2
    \/ GrantOverrideToUser2
    \/ RequirePermission
    \/ Tick
    \/ EndRequest

LifeSpec == Init /\ [][LifeNext]_vars

(* ---------------------------------------------------------------------- *)
(* Two companies: the RBAC routes over a store in which company 2 has a    *)
(* user, a role and an override of its own                                 *)
(* ---------------------------------------------------------------------- *)

(* Company 1: user 1 with the system role "admin". Company 2: user 2 with  *)
(* the role "manager" and an override for (roles, manage_roles).           *)
ScopeInit ==
    /\ owners = {1}
    /\ companies = [c \in CompanyIds |->
                      [owner_id |-> 1, is_active |-> TRUE, is_frozen |-> FALSE]]
    /\ users = [u \in UserIds |->
                  [company_id |-> u, is_active |-> TRUE, assigned_role_id |-> u]]
    /\ company_roles =
          [id \in {1, 2} |->
             IF id = 1 THEN RoleRow(1, "admin", "Admin", 1, TRUE, 1)
                       ELSE RoleRow(2, "manager", "Manager", 0, TRUE, 2)]
    /\ role_permissions = {Binding(1, 1, TRUE), Binding(2, 2, FALSE)}
    /\ user_permission_overrides = {Override(2, 1, TRUE, NULL)}
    /\ permission_audit_log = << >>
    /\ Catalog(NULL, NULL)
    /\ nextRoleId = 3
    /\ now = 0
    /\ inflight = NoTxn
    /\ res = NoRes

ScopeNext ==
    \/ UpdateRole
    \/ DeleteRole
    \/ CloneRole
    \/ AssignPermissionsToRole
    \/ RevokePermissionsFromRole
    \/ AssignRoleToUser
    \/ RevokeRoleFromUser
    \/ RevokePermissionOverride
    \/ EndRequest

ScopeSpec == ScopeInit /\ [][ScopeNext]_vars

(* ---------------------------------------------------------------------- *)
(* Two createRole requests on two connections                              *)
(* ---------------------------------------------------------------------- *)

(* A store with the system role "admin" alone, so that two roles can still *)
(* be created.                                                             *)
KeyInit ==
    /\ owners = {1}
    /\ companies = [c \in CompanyIds |->
                      [owner_id |-> 1, is_active |-> TRUE, is_frozen |-> FALSE]]
    /\ users = [u \in UserIds |->
                  [company_id |-> 1, is_active |-> TRUE, assigned_role_id |-> 1]]
    /\ company_roles = [id \in {1} |-> RoleRow(1, "admin", "Admin", 1, TRUE, 1)]
    /\ role_permissions = {Binding(1, 1, TRUE)}
    /\ user_permission_overrides = {}
    /\ permission_audit_log = << >>
    /\ Catalog(NULL, NULL)
    /\ nextRoleId = 2
    /\ now = 0
    /\ inflight = NoTxn
    /\ res = NoRes

(* POST /roles by the owner, without permission ids.                       *)
CreateRoleOfKey ==
    /\ res = NoRes
    /\ \E companyId \in CompanyIds, queryId \in QueryIds, roleKey \in RoleKeyInputs,
          roleName \in RoleNameInputs :
          Handled(createRole(OwnerPrincipal, companyId, queryId, roleKey, roleName,
                             0, << >>))

(* POST /roles/:id/clone by the owner.                                     *)
CloneRoleOfKey ==
    /\ res = NoRes
    /\ \E id \in {1, 2}, companyId \in CompanyIds, queryId \in QueryIds,
          newRoleKey \in RoleKeyInputs, newRoleName \in RoleNameInputs :
          Handled(cloneRole(OwnerPrincipal, id, companyId, queryId, newRoleKey,
                            newRoleName, FALSE))

(* createRole on the second connection has passed its duplicate check and  *)
(* its permission check and has not yet executed its INSERT.               *)
BeginCreateRole ==
    /\ res = NoRes
    /\ inflight = NoTxn
    /\ \E user \in {OwnerPrincipal}, companyId \in CompanyIds, queryId \in QueryIds,
          roleKey \in RoleKeyInputs, roleName \in RoleNameInputs,
          permissionIds \in {<< >>} :
          /\ createRoleChecks(user, companyId, queryId, roleKey, roleName).status = 0
          /\ inflight' = [op |-> "createRole", user |-> user,
                          company_id |-> companyId, query_id |-> queryId,
                          role_key |-> roleKey, role_name |-> roleName,
                          permission_ids |-> permissionIds]
    /\ UNCHANGED <<store, now, res>>

(* The second connection executes its INSERTs and commits, or its INSERT   *)
(* fails and it rolls back.                                                *)
CommitCreateRole ==
    /\ res = NoRes
    /\ inflight.op = "createRole"
    /\ LET o == createRoleWrites(inflight.user, inflight.company_id,
                                 inflight.query_id, inflight.role_key,
                                 inflight.role_name, 0, inflight.permission_ids)
       IN /\ Len(o.permission_audit_log) <= MaxAudit + 1
          /\ o.nextRoleId <= MaxRoles + 1
          /\ Written(o)
    /\ inflight' = NoTxn

KeyNext ==
    \/ CreateRoleOfKey
    \/ CloneRoleOfKey
    \/ BeginCreateRole
    \/ CommitCreateRole
    \/ EndRequest

KeySpec == KeyInit /\ [][KeyNext]_vars

(* ---------------------------------------------------------------------- *)
(* The ten mutating handlers, with a statement failing in the database     *)
(* ---------------------------------------------------------------------- *)

(* Where a statement of createRole or updateRole fails: nowhere, at the    *)
(* audit INSERT before connection.commit(), or at the SELECT that fetches  *)
(* the role after connection.commit().                                     *)
FaultInputs == {"none", "before_commit", "after_commit"}

(* handleError for an error of the database driver: 500.                   *)
DatabaseError(answer) ==
    [answer EXCEPT !.outcome = "error", !.status = 500, !.code = "DB_ERROR"]

(* The outcome o of a handler whose statement fails at `fault`: the catch  *)
(* block calls connection.rollback(), which undoes the writes only while   *)
(* the transaction is not yet committed.                                   *)
WithFault(o, fault) ==
    IF fault = "none" \/ o.res.outcome # "success"
    THEN o
    ELSE IF fault = "before_commit"
    THEN [RolledBack(DatabaseError(o.res)) EXCEPT !.nextRoleId = o.nextRoleId]
    ELSE [o EXCEPT !.res = DatabaseError(o.res)]

(* With a failing statement the audit log can grow under an error answer:  *)
(* the bound on the log holds for every outcome.                           *)
HandledWithFault(o) ==
    /\ Len(o.permission_audit_log) <= MaxAudit
    /\ o.nextRoleId <= MaxRoles + 1
    /\ Committed(o)

CreateRoleWithFault ==
    /\ res = NoRes
    /\ \E user \in Callers, companyId \in CompanyIds, queryId \in QueryIds,
          roleKey \in RoleKeyInputs, roleName \in RoleNameInputs,
          isSystemRole \in {0, 1}, permissionIds \in PermissionIdLists,
          fault \in FaultInputs :
          HandledWithFault(WithFault(createRole(user, companyId, queryId, roleKey, roleName,
                                       isSystemRole, permissionIds), fault))

UpdateRoleWithFault ==
    /\ res = NoRes
    /\ \E user \in Callers, id \in RoleIdInputs, companyId \in CompanyIds,
          queryId \in QueryIds, body \in RoleBodies, fault \in FaultInputs :
          HandledWithFault(WithFault(updateRole(user, id, companyId, queryId, body), fault))

(* DELETE /users/2/permissions/override?company_id=1                       *)
RevokeOverrideOfUser2 ==
    /\ res = NoRes
    /\ \E user \in Callers, permissionId \in PermissionIdInputs :
          CommittedOverride(revokePermissionOverride(user, 2, 1, permissionId))

FaultNext ==
    \/ CreateRoleWithFault
    \/ UpdateRoleWithFault
    \/ DeleteRole
    \/ CloneRole
    \/ AssignPermissionsToRole
    \/ RevokePermissionsFromRole
    \/ AssignRoleToUser
    \/ RevokeRoleFromUser
    \/ GrantOverrideToUser2
    \/ RevokeOverrideOfUser2
    \/ EndRequest

FaultSpec == Init /\ [][FaultNext]_vars

(* ---------------------------------------------------------------------- *)
(* middleware/auth.js: authenticateToken                                   *)
(* ---------------------------------------------------------------------- *)

(* What jwt.verify returns for a valid token: the id and the userType the  *)
(* login signed into it.                                                   *)
DecodedTokens == [id : {1, 2, 3}, userType : {"owner", "user", "manager"}]

(* "SELECT id, name, email FROM owners WHERE id = ?"                       *)
OwnerRows(id) == { o \in owners : o = id }

(* "SELECT ... FROM users u JOIN companies c ON u.company_id = c.id        *)
(* WHERE u.id = ? AND u.is_active = 1"                                     *)
ActiveUserRows(id) ==
    { u \in DOMAIN users : /\ u = id
                           /\ users[u].company_id \in DOMAIN companies
                           /\ users[u].is_active }

(* The answer of authenticateToken: req.user and next(), or the status.    *)
AuthAnswer(decoded, user, outcome, status, code, failed) ==
    [gate |-> "authenticateToken", user |-> user, pairs |-> << >>,
     outcome |-> outcome, status |-> status, code |-> code, named |-> NoPair,
     reads |-> 1, failed |-> failed, decoded |-> decoded]

(* authenticateToken after jwt.verify; queryFails: db.execute throws.      *)
authenticateToken(decoded, queryFails) ==
    IF decoded.userType = "owner"
    THEN IF queryFails
         THEN AuthAnswer(decoded, NoUser, "rejected", 500, "AUTH_FAILED", TRUE)
         ELSE IF OwnerRows(decoded.id) # {}
         THEN AuthAnswer(decoded,
                         [id |-> decoded.id, userType |-> "owner", company_id |-> NULL],
                         "next", 0, "", FALSE)
         ELSE AuthAnswer(decoded, NoUser, "rejected", 401, "USER_NOT_FOUND", FALSE)
    ELSE IF decoded.userType = "user"
    THEN IF queryFails
         THEN AuthAnswer(decoded, NoUser, "rejected", 500, "AUTH_FAILED", TRUE)
         ELSE IF ActiveUserRows(decoded.id) # {}
         THEN AuthAnswer(decoded,
                         [id |-> decoded.id, userType |-> "user",
                          company_id |-> users[decoded.id].company_id],
                         "next", 0, "", FALSE)
         ELSE AuthAnswer(decoded, NoUser, "rejected", 401, "USER_NOT_FOUND", FALSE)
    ELSE AuthAnswer(decoded, NoUser, "rejected", 401, "USER_NOT_FOUND", FALSE)

AuthenticateToken ==
    /\ res = NoRes
    /\ \E decoded \in DecodedTokens, queryFails \in BOOLEAN :
          res' = authenticateToken(decoded, queryFails)
    /\ UNCHANGED <<store, now, inflight>>

(* Stores with and without the owner row, with users and companies active  *)
(* or not; user u belongs to company u.                                    *)
AuthInit ==
    /\ owners \in SUBSET {1, 2}
    /\ \E activeCompanies \in SUBSET CompanyIds :
          companies = [c \in CompanyIds |->
                         [owner_id |-> 1, is_active |-> (c \in activeCompanies),
                          is_frozen |-> FALSE]]
    /\ \E activeUsers \in SUBSET UserIds :
          users = [u \in UserIds |->
                     [company_id |-> u, is_active |-> (u \in activeUsers),
                      assigned_role_id |-> NULL]]
    /\ company_roles = [id \in {1} |-> RoleRow(1, "admin", "Admin", 1, TRUE, 1)]
    /\ role_permissions = {Binding(1, 1, TRUE)}
    /\ user_permission_overrides = {}
    /\ permission_audit_log = << >>
    /\ Catalog(NULL, NULL)
    /\ nextRoleId = 2
    /\ now = 0
    /\ inflight = NoTxn
    /\ res = NoRes

AuthNext ==
    \/ AuthenticateToken
    \/ EndRequest

AuthSpec == AuthInit /\ [][AuthNext]_vars

(* ---------------------------------------------------------------------- *)
(* Two assignPermissions requests on two connections                       *)
(* ---------------------------------------------------------------------- *)

(* assignPermissionsToRole for one permission id from its INSERT on: the   *)
(* INSERT into role_permissions, the audit row and the commit.             *)
assignPermissionsInsert(user, id, companyId, queryId, permissionId, canGrantFlag) ==
    LET Ans(status, code, count) ==
            Answer("assignPermissionsToRole", user, status, code, id, companyId, count)
               @@ [total |-> 1, permission_ids |-> <<permissionId>>]
    IN
    IF ~ReferencedRoleExists(company_roles, id)
    THEN RolledBack(Ans(400, "ER_NO_REFERENCED_ROW", 0))
    ELSE IF BindingIsTaken(role_permissions, id, permissionId)
    THEN RolledBack(Ans(409, "ER_DUP_ENTRY", 0))
    ELSE Outcome(Ans(200, "ASSIGNED", 1),
                 company_roles,
                 role_permissions \cup {Binding(id, permissionId, canGrantFlag)},
                 users,
                 Append(permission_audit_log,
                        AuditRow(companyId, "PERMISSION_GRANTED", id, NULL, queryId)),
                 nextRoleId)

(* assignPermissionsToRole on the second connection, for one permission    *)
(* id, has found no binding for it and has not yet executed its INSERT.    *)
BeginAssignPermissions ==
    /\ res = NoRes
    /\ inflight = NoTxn
    /\ \E id \in {1, 2}, companyId \in {1}, queryId \in QueryIds,
          permissionId \in PermissionIds, canGrantFlag \in BOOLEAN :
          LET o == assignPermissionsToRole(OwnerPrincipal, id, companyId, queryId,
                                           <<permissionId>>, canGrantFlag)
          IN /\ o.res.outcome = "success"
             /\ o.res.count = 1
             /\ inflight' = [op |-> "assignPermissionsToRole", user |-> OwnerPrincipal,
                             id |-> id, company_id |-> companyId,
                             query_id |-> queryId, permission_id |-> permissionId,
                             can_grant |-> canGrantFlag]
    /\ UNCHANGED <<store, now, res>>

(* The second connection executes its INSERT and commits, or the INSERT    *)
(* fails and it rolls back.                                                *)
CommitAssignPermissions ==
    /\ res = NoRes
    /\ inflight.op = "assignPermissionsToRole"
    /\ LET o == assignPermissionsInsert(inflight.user, inflight.id,
                                        inflight.company_id, inflight.query_id,
                                        inflight.permission_id, inflight.can_grant)
       IN /\ Len(o.permission_audit_log) <= MaxAudit + 1
          /\ Written(o)
    /\ inflight' = NoTxn

(* POST /roles?company_id=1 by the owner with a permission_ids list that   *)
(* names an id twice.                                                      *)
CreateRoleRepeatingId ==
    /\ res = NoRes
    /\ \E queryId \in QueryIds, permissionIds \in {<<1, 1>>, <<2, 1>>} :
          Handled(createRole(OwnerPrincipal, 1, queryId, "clerk", "Clerk", 0,
                             permissionIds))

BindNext ==
    \/ CreateRoleRepeatingId
    \/ CloneRoleOfKey
    \/ AssignPermissionsToRole
    \/ RevokePermissionsFromRole
    \/ BeginAssignPermissions
    \/ CommitAssignPermissions
    \/ EndRequest

BindSpec == Init /\ [][BindNext]_vars

(* ---------------------------------------------------------------------- *)
(* Overrides granted again and revoked                                     *)
(* ---------------------------------------------------------------------- *)
ReasonInputs == {"", " leave cover "}

(* POST /users/:id/permissions/override?company_id=1 with a reason; the    *)
(* query string carries the id 1 or 2.                                     *)
GrantOverrideWithReason ==
    /\ res = NoRes
    /\ \E user \in Callers, id \in {0, 2}, queryId \in {1, 2},
          permissionId \in PermissionIdInputs, expiresAt \in ExpiryInputs,
          reason \in ReasonInputs :
          CommittedOverride(grantPermissionOverride(user, id, 1, queryId,
                                                    permissionId, expiresAt, reason))

UpsertNext ==
    \/ GrantOverrideWithReason
    \/ RevokeOverrideOfUser2
    \/ Tick
    \/ EndRequest

UpsertSpec == Init /\ [][UpsertNext]_vars

(* ---------------------------------------------------------------------- *)
(* middleware/rbac.js: attachUserPermissions                               *)
(* ---------------------------------------------------------------------- *)

(* `${p.module_key}.${p.permission_key}`                                   *)
FormatKey(row) == row[1] \o "." \o row[2]

(* The (module_key, permission_key) row the joins with system_permissions  *)
(* and system_modules give for a permission id; no row when one is missing. *)
KeyRowsOf(permissionId) ==
    IF /\ permissionId \in DOMAIN system_permissions
       /\ system_permissions[permissionId].module_id \in DOMAIN system_modules
    THEN { << system_modules[system_permissions[permissionId].module_id].module_key,
              system_permissions[permissionId].permission_key >> }
    ELSE {}

(* Variant of RoleKeyRows without the test cr.is_active = 1.               *)
RoleKeyRows_InactiveRoleToo(userId) ==
    UNION { KeyRowsOf(rp.system_permission_id) :
              rp \in { x \in role_permissions :
                         /\ userId \in DOMAIN users
                         /\ users[userId].assigned_role_id = x.company_role_id
                         /\ x.company_role_id \in DOMAIN company_roles
                         /\ users[userId].is_active } }

(* First SELECT of attachUserPermissions: the keys bound to the user's     *)
(* role, WHERE u.id = ? AND u.is_active = 1 AND cr.is_active = 1.          *)
RoleKeyRows(userId) ==
    UNION { KeyRowsOf(rp.system_permission_id) :
              rp \in { x \in role_permissions :
                         /\ userId \in DOMAIN users
                         /\ users[userId].assigned_role_id = x.company_role_id
                         /\ x.company_role_id \in DOMAIN company_roles
                         /\ users[userId].is_active
                         /\ company_roles[x.company_role_id].is_active } }

(* Second SELECT: the keys of the user's granted overrides with            *)
(* expires_at IS NULL OR expires_at > NOW().                               *)
OverrideKeyRows(userId) ==
    UNION { KeyRowsOf(upo.system_permission_id) :
              upo \in { x \in user_permission_overrides :
                          /\ x.user_id = userId
                          /\ x.is_granted
                          /\ (x.expires_at = NULL \/ x.expires_at > now) } }

(* permissions.map(...) over the rows of the UNION: how often each string  *)
(* occurs in req.userPermissions.                                          *)
MappedKeys(rows) ==
    [k \in { FormatKey(r) : r \in rows } |->
       Cardinality({ r \in rows : FormatKey(r) = k })]

(* What attachUserPermissions leaves: next() in every case, and            *)
(* req.userPermissions when it was set (attached).                         *)
Attached(user, attached, permissions, reads, failed) ==
    [Continue("attachUserPermissions", user, << >>, reads) EXCEPT !.failed = failed]
       @@ [attached |-> attached, userPermissions |-> permissions]

(* attachUserPermissions; queryFails: db.execute throws.                   *)
attachUserPermissions(user, queryFails) ==
    IF Unauthenticated(user)
    THEN Attached(user, FALSE, << >>, 0, FALSE)
    ELSE IF user.userType = "owner"
    THEN Attached(user, TRUE, [k \in {"*.*"} |-> 1], 0, FALSE)
    ELSE IF queryFails
    THEN Attached(user, FALSE, << >>, 1, TRUE)
    ELSE Attached(user, TRUE,
                  MappedKeys(RoleKeyRows(user.id) \cup OverrideKeyRows(user.id)),
                  1, FALSE)

AttachUserPermissions ==
    /\ res = NoRes
    /\ \E user \in Principals, queryFails \in BOOLEAN :
          res' = attachUserPermissions(user, queryFails)
    /\ UNCHANGED <<store, now, inflight>>

AttachNext ==
    \/ AttachUserPermissions
    \/ Tick
    \/ EndRequest

AttachSpec == GateInit /\ [][AttachNext]_vars

(* ---------------------------------------------------------------------- *)
(* rbacController.js: compareRoles                                         *)
(* ---------------------------------------------------------------------- *)

(* role_ids after split(",") and parseInt; << >> is the missing parameter. *)
RoleIdLists == { << >>, <<1>>, <<1, 2>>, <<1, 3>>, <<3, 2, 1>>, <<3, 4>> }

(* The rows of the permissions query of compareRoles for one role.         *)
ComparedPermissions(roleId) ==
    { [id |-> rp.system_permission_id, can_grant |-> rp.can_grant] :
        rp \in { x \in role_permissions :
                   /\ x.company_role_id = roleId
                   /\ KeyRowsOf(x.system_permission_id) # {} } }

(* The comparison object after the loop: one key for each requested id     *)
(* that the role lookup finds in the company.                              *)
Comparison(roleIds, companyId) ==
    [r \in { roleIds[i] : i \in { j \in DOMAIN roleIds :
                                    RoleInCompany(roleIds[j], companyId) } } |->
       [role_name |-> company_roles[r].role_name,
        role_key |-> company_roles[r].role_key,
        permissions |-> ComparedPermissions(r)]]

compareRoles(user, companyId, roleIds) ==
    LET Ans(status, code, comparison) ==
            Answer("compareRoles", user, status, code, NULL, companyId,
                   Cardinality(DOMAIN comparison))
               @@ [role_ids |-> roleIds, comparison |-> comparison]
    IN
    IF roleIds = << >>
    THEN Ans(400, "REQUIRED", << >>)
    ELSE IF Len(roleIds) < 2
    THEN Ans(400, "TOO_FEW_ROLES", << >>)
    ELSE Ans(200, "COMPARED", Comparison(roleIds, companyId))

CompareRoles ==
    /\ res = NoRes
    /\ \E user \in Callers, companyId \in CompanyIds, roleIds \in RoleIdLists :
          res' = compareRoles(user, companyId, roleIds)
    /\ UNCHANGED <<store, now, inflight>>

CompareNext ==
    \/ CompareRoles
    \/ CreateRoleOfKey
    \/ EndRequest

CompareSpec == Init /\ [][CompareNext]_vars

(* ---------------------------------------------------------------------- *)
(* deleteRole, assignRoleToUser and assignPermissionsToRole on two         *)
(* connections                                                             *)
(* ---------------------------------------------------------------------- *)

(* deleteRole on the second connection has passed its lookups, its count   *)
(* of holders and its permission check and has not yet executed a DELETE.  *)
BeginDeleteRole ==
    /\ res = NoRes
    /\ inflight = NoTxn
    /\ \E id \in {2, 3}, companyId \in {1}, queryId \in QueryIds :
          /\ deleteRole(OwnerPrincipal, id, companyId, queryId).res.outcome = "success"
          /\ inflight' = [op |-> "deleteRole", user |-> OwnerPrincipal, id |-> id,
                          company_id |-> companyId, query_id |-> queryId]
    /\ UNCHANGED <<store, now, res>>

(* The second connection executes its DELETEs and commits, or a DELETE     *)
(* fails and it rolls back.                                                *)
CommitDeleteRole ==
    /\ res = NoRes
    /\ inflight.op = "deleteRole"
    /\ LET o == deleteRoleWrites(inflight.user, inflight.id, inflight.company_id,
                                 inflight.query_id)
       IN /\ Len(o.permission_audit_log) <= MaxAudit + 1
          /\ Written(o)
    /\ inflight' = NoTxn

(* assignRoleToUser on the second connection has found the user and the    *)
(* role and has not yet executed its UPDATE.                               *)
BeginAssignRole ==
    /\ res = NoRes
    /\ inflight = NoTxn
    /\ \E id \in UserIds, companyId \in {1}, queryId \in QueryIds, roleId \in {2, 3} :
          /\ assignRoleToUser(OwnerPrincipal, id, companyId, queryId, roleId).res.outcome
                = "success"
          /\ inflight' = [op |-> "assignRoleToUser", user |-> OwnerPrincipal, id |-> id,
                          company_id |-> companyId, query_id |-> queryId,
                          role_id |-> roleId]
    /\ UNCHANGED <<store, now, res>>

(* The second connection executes its UPDATE and commits, or the UPDATE    *)
(* fails and it rolls back.                                                *)
CommitAssignRole ==
    /\ res = NoRes
    /\ inflight.op = "assignRoleToUser"
    /\ LET o == assignRoleWrites(inflight.user, inflight.id, inflight.company_id,
                                 inflight.query_id, inflight.role_id)
       IN /\ Len(o.permission_audit_log) <= MaxAudit + 1
          /\ Written(o)
    /\ inflight' = NoTxn

(* The owner's requests of the three handlers, and of revokeRoleFromUser,  *)
(* on the first connection.                                                *)
DeleteRoleByOwner ==
    /\ res = NoRes
    /\ \E id \in {2, 3}, queryId \in QueryIds :
          Handled(deleteRole(OwnerPrincipal, id, 1, queryId))

AssignRoleByOwner ==
    /\ res = NoRes
    /\ \E id \in UserIds, queryId \in QueryIds, roleId \in {2, 3} :
          Handled(assignRoleToUser(OwnerPrincipal, id, 1, queryId, roleId))

AssignPermissionsByOwner ==
    /\ res = NoRes
    /\ \E id \in {2, 3}, queryId \in QueryIds, permissionIds \in PermissionIdLists :
          Handled(assignPermissionsToRole(OwnerPrincipal, id, 1, queryId,
                                          permissionIds, FALSE))

(* Company 1 with the system role "admin" held by user 1, the roles        *)
(* "manager" and "clerk" held by nobody, and user 2 without a role.        *)
RefInit ==
    /\ owners = {1}
    /\ companies = [c \in CompanyIds |->
                      [owner_id |-> 1, is_active |-> TRUE, is_frozen |-> FALSE]]
    /\ users = [u \in UserIds |->
                  [company_id |-> 1, is_active |-> TRUE,
                   assigned_role_id |-> IF u = 1 THEN 1 ELSE NULL]]
    /\ company_roles =
          [id \in {1, 2, 3} |->
             IF id = 1 THEN RoleRow(1, "admin", "Admin", 1, TRUE, 1)
             ELSE IF id = 2 THEN RoleRow(1, "manager", "Manager", 0, TRUE, 1)
             ELSE RoleRow(1, "clerk", "Clerk", 0, TRUE, 1)]
    /\ role_permissions = {Binding(1, 1, TRUE), Binding(2, 2, FALSE)}
    /\ user_permission_overrides = {}
    /\ permission_audit_log = << >>
    /\ Catalog(NULL, NULL)
    /\ nextRoleId = 4
    /\ now = 0
    /\ inflight = NoTxn
    /\ res = NoRes

RefNext ==
    \/ DeleteRoleByOwner
    \/ AssignRoleByOwner
    \/ AssignPermissionsByOwner
    \/ BeginDeleteRole
    \/ CommitDeleteRole
    \/ BeginAssignRole
    \/ CommitAssignRole
    \/ BeginAssignPermissions
    \/ CommitAssignPermissions
    \/ EndRequest

RefSpec == RefInit /\ [][RefNext]_vars

(* ---------------------------------------------------------------------- *)
(* rbacController.js: checkPermission                                      *)
(* ---------------------------------------------------------------------- *)

(* GET /check-permission?module_key=..&permission_key=..&id=..: the        *)
(* handler asks checkUserPermission for every caller, the owner included,  *)
(* and has no override query.                                              *)
checkPermission(user, queryId, moduleKey, permissionKey) ==
    LET has == checkUserPermission(queryId, moduleKey, permissionKey)
        Ans(status, code, hasPermission) ==
            Answer("checkPermission", user, status, code, queryId, user.company_id, 0)
               @@ [module_key |-> moduleKey, permission_key |-> permissionKey,
                   has_permission |-> hasPermission]
    IN
    IF moduleKey = "" \/ permissionKey = ""
    THEN Ans(400, "REQUIRED", FALSE)
    ELSE IF has = "ReferenceError"
    THEN Ans(500, "REFERENCE_ERROR", FALSE)
    ELSE Ans(200, "CHECKED", has = "true")

CheckPermission ==
    /\ res = NoRes
    /\ \E user \in Principals \ {NoUser}, pair \in Pairs \cup {NoPair} :
          res' = checkPermission(user, user.id, pair[1], pair[2])
    /\ UNCHANGED <<store, now, inflight>>

CheckNext ==
    \/ CheckPermission
    \/ Tick
    \/ EndRequest

CheckSpec == GateInit /\ [][CheckNext]_vars

(* ====================================================================== *)
(* Properties of the permission gates (checked under GateSpec)             *)
(* ====================================================================== *)
Gates3 == {"requirePermission", "requireAnyPermission", "requireAllPermissions"}

(* The request came from a company user (req.user.userType = "user").      *)
FromCompanyUser == res.gate # "idle" /\ res.user.userType = "user"

(* Permission ids the catalog files under (moduleKey, permissionKey).      *)
PermissionsNamed(pair) ==
    { p \in PermissionIds :
        ModuleKeyOf[ModuleOfPermission[p]] = pair[1] /\ PermissionKeyOf[p] = pair[2] }

(* The user's assigned role holds a binding to the permission named by pair. *)
RoleBoundTo(userId, pair) ==
    /\ userId \in DOMAIN users
    /\ \E p \in PermissionsNamed(pair) : \E cg \in BOOLEAN :
          Binding(users[userId].assigned_role_id, p, cg) \in role_permissions

(* ... and user, role, permission and module are all active.               *)
ActiveRoleGrant(userId, pair) ==
    /\ RoleBoundTo(userId, pair)
    /\ users[userId].is_active
    /\ users[userId].assigned_role_id \in DOMAIN company_roles
    /\ company_roles[users[userId].assigned_role_id].is_active
    /\ \A p \in PermissionsNamed(pair) :
          system_permissions[p].is_active
          /\ system_modules[system_permissions[p].module_id].is_active

(* An override of the user for the permission named by pair that is        *)
(* granted and not expired.                                                *)
ActiveOverrideFor(userId, pair) ==
    \E upo \in user_permission_overrides :
        /\ upo.user_id = userId
        /\ upo.system_permission_id \in PermissionsNamed(pair)
        /\ upo.is_granted
        /\ (upo.expires_at = NULL \/ upo.expires_at > now)

(* The principal's account is usable: company not frozen, user row active. *)
AccountUsable(user) ==
    /\ ~companies[user.company_id].is_frozen
    /\ user.id \in DOMAIN users
    /\ users[user.id].is_active

(* C1: Owner bypass. For a principal of kind owner each of the three       *)
(* permission gates calls next() for every (module, permission) argument   *)
(* in every store state, and does so without a single query.               *)
C1_OwnerBypass ==
    (res.gate \in Gates3 /\ res.user.userType = "owner")
        => (res.outcome = "next" /\ res.reads = 0 /\ ~res.failed)

(* An owner passed requireAllPermissions on two pairs while the company is *)
(* frozen and no role is assigned and no override stored.                  *)
C1_Witness ==
    /\ res.gate = "requireAllPermissions"
    /\ res.user = OwnerPrincipal
    /\ Len(res.pairs) = 2
    /\ res.outcome = "next"
    /\ companies[1].is_frozen
    /\ users[1].assigned_role_id = NULL
    /\ user_permission_overrides = {}

(* C2: Role-grant correctness. For an active user of a non-frozen company, *)
(* requirePermission(M, P) passes when the user's active role is bound to  *)
(* the active permission P of the active module M; it answers 403          *)
(* PERMISSION_DENIED naming (M, P) when the user's role has no binding for *)
(* (M, P) and the user has no active override for it.                      *)
C2_RoleGrant ==
    (res.gate = "requirePermission" /\ FromCompanyUser /\ ~res.failed
       /\ AccountUsable(res.user))
        => /\ ActiveRoleGrant(res.user.id, res.pairs[1]) => res.outcome = "next"
           /\ (~RoleBoundTo(res.user.id, res.pairs[1])
                 /\ ~ActiveOverrideFor(res.user.id, res.pairs[1]))
                => (/\ res.outcome = "rejected"
                    /\ res.status = 403
                    /\ res.code = "PERMISSION_DENIED"
                    /\ res.named = res.pairs[1])

(* A user holding role 2 (bound to orders.view_all_orders only) is denied  *)
(* roles.manage_roles, which role 1 is bound to.                           *)
C2_Witness ==
    /\ res.gate = "requirePermission"
    /\ res.user = UserPrincipal(1)
    /\ users[1].assigned_role_id = 2
    /\ Binding(1, 1, FALSE) \in role_permissions
    /\ Binding(2, 2, FALSE) \in role_permissions
    /\ res.pairs[1] = <<"roles", "manage_roles">>
    /\ res.code = "PERMISSION_DENIED"
    /\ res.named = <<"roles", "manage_roles">>

(* C3: Override expiry. For an active user without a role in a non-frozen  *)
(* company, requirePermission passes exactly when the user has an override *)
(* for the permission with is_granted and (expires_at null or later than   *)
(* now); an expired row that is still stored no longer counts.             *)
C3_OverrideExpiry ==
    (res.gate = "requirePermission" /\ FromCompanyUser /\ ~res.failed
       /\ AccountUsable(res.user) /\ users[res.user.id].assigned_role_id = NULL)
        => (res.outcome = "next" <=> ActiveOverrideFor(res.user.id, res.pairs[1]))

(* The override row with expires_at = 1 is still stored, the clock has     *)
(* reached it, and the check is denied.                                    *)
C3_Witness ==
    /\ res.gate = "requirePermission"
    /\ res.user = UserPrincipal(1)
    /\ users[1].is_active
    /\ ~companies[1].is_frozen
    /\ users[1].assigned_role_id = NULL
    /\ Override(1, 2, TRUE, 1) \in user_permission_overrides
    /\ now >= 1
    /\ res.pairs[1] = <<"orders", "view_all_orders">>
    /\ res.code = "PERMISSION_DENIED"

(* The single-pair permission check: the role query and the override query *)
(* of requirePermission.                                                   *)
SinglePairCheck(userId, pair) ==
    \/ Cardinality(RolePermissionRows(userId, pair[1], pair[2])) > 0
    \/ Cardinality(OverrideRows(userId, pair[1], pair[2])) > 0

(* C4: OR semantics. For a company user requireAnyPermission passes        *)
(* exactly when at least one pair of the list resolves true under the      *)
(* single-pair permission check; otherwise it answers PERMISSION_DENIED.   *)
C4_AnyIsOr ==
    (res.gate = "requireAnyPermission" /\ FromCompanyUser /\ ~res.failed)
        => /\ res.outcome = "next"
                <=> \E i \in 1..Len(res.pairs) : SinglePairCheck(res.user.id, res.pairs[i])
           /\ res.outcome # "next" => res.code = "PERMISSION_DENIED"

(* First index of the list whose pair fails the single-pair check.         *)
FirstMissing(userId, pairs) ==
    CHOOSE i \in 1..Len(pairs) :
        /\ ~SinglePairCheck(userId, pairs[i])
        /\ \A j \in 1..(i - 1) : SinglePairCheck(userId, pairs[j])

(* C5: AND semantics. For a company user requireAllPermissions passes      *)
(* exactly when every pair of the list resolves true under the single-pair *)
(* check, and a denial names the first pair, in list order, that does not. *)
C5_AllIsAnd ==
    (res.gate = "requireAllPermissions" /\ FromCompanyUser /\ ~res.failed)
        => /\ res.outcome = "next"
                <=> \A i \in 1..Len(res.pairs) : SinglePairCheck(res.user.id, res.pairs[i])
           /\ res.outcome # "next"
                => /\ res.code = "PERMISSION_DENIED"
                   /\ \E i \in 1..Len(res.pairs) : ~SinglePairCheck(res.user.id, res.pairs[i])
                   /\ res.named = res.pairs[FirstMissing(res.user.id, res.pairs)]

(* C6: In requirePermission a company user of a frozen company is answered *)
(* 403 COMPANY_FROZEN after the company query alone, and one whose user    *)
(* row is missing or inactive 403 USER_INACTIVE after the company and user *)
(* queries, whatever bindings or overrides exist.                          *)
C6_FrozenThenInactive ==
    (res.gate = "requirePermission" /\ FromCompanyUser /\ ~res.failed)
        => /\ companies[res.user.company_id].is_frozen
                => (res.outcome = "rejected" /\ res.status = 403
                    /\ res.code = "COMPANY_FROZEN" /\ res.reads = 1)
           /\ (~companies[res.user.company_id].is_frozen
                 /\ (res.user.id \notin DOMAIN users \/ ~users[res.user.id].is_active))
                => (res.outcome = "rejected" /\ res.status = 403
                    /\ res.code = "USER_INACTIVE" /\ res.reads = 2)

(* A frozen company's inactive user, holding an unexpired override for the *)
(* permission asked for, is answered COMPANY_FROZEN.                       *)
C6_Witness ==
    /\ res.gate = "requirePermission"
    /\ res.user = UserPrincipal(1)
    /\ companies[1].is_frozen
    /\ ~users[1].is_active
    /\ Override(1, 2, TRUE, NULL) \in user_permission_overrides
    /\ res.pairs[1] = <<"orders", "view_all_orders">>
    /\ res.code = "COMPANY_FROZEN"

(* C7: requireAnyPermission and requireAllPermissions reject a company     *)
(* user of a frozen company with COMPANY_FROZEN and an inactive or missing *)
(* user with USER_INACTIVE, as requirePermission does.                     *)
C7_SamePreconditions ==
    (res.gate \in {"requireAnyPermission", "requireAllPermissions"}
       /\ FromCompanyUser /\ ~res.failed)
        => /\ companies[res.user.company_id].is_frozen
                => (res.outcome = "rejected" /\ res.code = "COMPANY_FROZEN")
           /\ (~companies[res.user.company_id].is_frozen
                 /\ (res.user.id \notin DOMAIN users \/ ~users[res.user.id].is_active))
                => (res.outcome = "rejected" /\ res.code = "USER_INACTIVE")

(* A positive result of the gate's own lookups for the pair: a binding of  *)
(* the active user's active role, or an active override.                   *)
PositiveResult(userId, pair) ==
    \/ /\ RoleBoundTo(userId, pair)
       /\ users[userId].is_active
       /\ users[userId].assigned_role_id \in DOMAIN company_roles
       /\ company_roles[users[userId].assigned_role_id].is_active
    \/ ActiveOverrideFor(userId, pair)

(* C8: Fail closed. When a query of a gate throws, the gate answers 500    *)
(* with its check-error code and never calls next(); and no gate calls     *)
(* next() for a non-owner without a positive role, override or ownership   *)
(* result for what it requires.                                            *)
C8_FailClosed ==
    /\ res.failed
          => (/\ res.outcome = "rejected"
              /\ res.status = 500
              /\ res.code = (IF res.gate = "requireOwner"
                             THEN "OWNER_CHECK_ERROR" ELSE "PERMISSION_CHECK_ERROR"))
    /\ (res.outcome = "next" /\ res.user.userType # "owner")
          => /\ res.user.userType = "user"
             /\ res.gate = "requirePermission"
                   => PositiveResult(res.user.id, res.pairs[1])
             /\ res.gate = "requireAnyPermission"
                   => \E i \in 1..Len(res.pairs) : PositiveResult(res.user.id, res.pairs[i])
             /\ res.gate = "requireAllPermissions"
                   => \A i \in 1..Len(res.pairs) : PositiveResult(res.user.id, res.pairs[i])
             /\ res.gate = "requireOwner"
                   => companies[res.user.company_id].owner_id = res.user.id

(* The override query of requirePermission (its fourth query) threw for a  *)
(* user who holds an unexpired override: the answer is the 500 error.      *)
C8_Witness ==
    /\ res.gate = "requirePermission"
    /\ res.failed
    /\ res.reads = 4
    /\ res.status = 500
    /\ res.user = UserPrincipal(1)
    /\ Override(1, 2, TRUE, NULL) \in user_permission_overrides
    /\ res.pairs[1] = <<"orders", "view_all_orders">>

(* ====================================================================== *)
(* Properties of the role lifecycle (checked under Spec)                   *)
(* ====================================================================== *)

(* The step is the handling of one request by handler op.                  *)
Handles(op) == res = NoRes /\ res'.gate = op

(* The request of the step addresses, by id and company, a role stored     *)
(* before the step.                                                        *)
AddressesRole == RoleInCompany(res'.id, res'.company_id)

(* The step leaves the role rows, the bindings and the audit log alone.    *)
RolesBindingsAuditUnchanged ==
    /\ company_roles' = company_roles
    /\ role_permissions' = role_permissions
    /\ permission_audit_log' = permission_audit_log

(* C9: System role immutability. updateRole and deleteRole addressed to a  *)
(* role with is_system_role = 1 answer 403 for every caller, the owner     *)
(* included, and no step of any handler removes a system role or changes   *)
(* one of its attributes.                                                  *)
C9_SystemRoleImmutable ==
    [][ /\ \A r \in DOMAIN company_roles :
              company_roles[r].is_system_role = 1
                 => (r \in DOMAIN company_roles' /\ company_roles'[r] = company_roles[r])
        /\ ((Handles("updateRole") \/ Handles("deleteRole"))
              /\ AddressesRole /\ company_roles[res'.id].is_system_role = 1)
              => (res'.status = 403 /\ res'.code = "SYSTEM_ROLE")
      ]_vars

(* The owner asked to delete the system role "admin" and was answered 403; *)
(* the role is still stored.                                               *)
C9_Witness ==
    /\ res.gate = "deleteRole"
    /\ res.user = OwnerPrincipal
    /\ res.id = 1
    /\ res.status = 403
    /\ res.code = "SYSTEM_ROLE"
    /\ 1 \in DOMAIN company_roles
    /\ company_roles[1].is_system_role = 1

(* C10 as stated: deleteRole addressed to a role that at least one user    *)
(* holds answers RoleInUse with the number of holders and leaves the       *)
(* roles, the bindings and the audit log as they were.                     *)
C10_RoleInUse_AnyRole ==
    [][ (Handles("deleteRole") /\ AddressesRole
           /\ \E u \in DOMAIN users : users[u].assigned_role_id = res'.id)
          => (/\ res'.status = 400
              /\ res'.code = "ROLE_IN_USE"
              /\ res'.count = Cardinality({ u \in DOMAIN users :
                                              users[u].assigned_role_id = res'.id })
              /\ RolesBindingsAuditUnchanged)
      ]_vars

(* C10, amended: deleteRole addressed to a role that is not a system role  *)
(* and that at least one user holds answers 400 RoleInUse with the number  *)
(* of holders; for a held role, system or not, the roles, the bindings and *)
(* the audit log are after the call as they were before it.                *)
C10_RoleInUse ==
    [][ (Handles("deleteRole") /\ AddressesRole
           /\ \E u \in DOMAIN users : users[u].assigned_role_id = res'.id)
          => (/\ company_roles[res'.id].is_system_role # 1
                   => (/\ res'.status = 400
                       /\ res'.code = "ROLE_IN_USE"
                       /\ res'.count = Cardinality({ u \in DOMAIN users :
                                                       users[u].assigned_role_id = res'.id }))
              /\ res'.outcome = "error"
              /\ RolesBindingsAuditUnchanged)
      ]_vars

(* The owner asked to delete the role "manager" while user 2 holds it and  *)
(* was answered RoleInUse with count 1; role and binding are still stored. *)
C10_Witness ==
    /\ res.gate = "deleteRole"
    /\ res.user = OwnerPrincipal
    /\ res.id = 2
    /\ res.code = "ROLE_IN_USE"
    /\ res.count = 1
    /\ users[2].assigned_role_id = 2
    /\ 2 \in DOMAIN company_roles
    /\ Binding(2, 2, FALSE) \in role_permissions

(* ====================================================================== *)
(* Properties of permission assignment (checked under AssignSpec)          *)
(* ====================================================================== *)

(* Rows of role_permissions for the pair (roleId, permissionId).           *)
BindingRows(bindings, roleId, permissionId) ==
    { b \in bindings : /\ b.company_role_id = roleId
                       /\ b.system_permission_id = permissionId }

(* The step answers the repetition of the assignPermissions request that   *)
(* was just answered: one permission id, requested by a principal allowed  *)
(* to grant it (the owner), first answer assigned: 1.                      *)
SecondAssignOfOne ==
    /\ res.gate = "assignPermissionsToRole" /\ res.outcome = "success"
    /\ res'.gate = "assignPermissionsToRole"
    /\ res'.user = res.user /\ isOwner(res.user)
    /\ res'.id = res.id /\ res'.company_id = res.company_id
    /\ res.permission_ids = res'.permission_ids
    /\ Len(res.permission_ids) = 1
    /\ res.count = 1

(* C11: Idempotent assignment. When assignPermissions(role, [p1]) is       *)
(* called twice in a row by a principal allowed to grant p1, and the first *)
(* call reports assigned: 1, then after the second call there is exactly   *)
(* one binding row for (role, p1), the second call reports assigned: 0 and *)
(* skipped: 1, and assigned + skipped equals the number of requested ids.  *)
C11_IdempotentAssign ==
    [][ SecondAssignOfOne
          => /\ Cardinality(BindingRows(role_permissions', res'.id,
                                        res'.permission_ids[1])) = 1
             /\ res'.outcome = "success"
             /\ res'.count = 0
             /\ res'.skipped = 1
             /\ res'.count + res'.skipped = res'.total
      ]_vars

(* ====================================================================== *)
(* Properties of the audit log (checked under Spec)                        *)
(* ====================================================================== *)

(* The audited operations and the action type each one is to record.       *)
AuditedActionType ==
    [op \in {"createRole", "updateRole", "deleteRole", "assignPermissionsToRole",
             "revokePermissionsFromRole", "assignRoleToUser", "revokeRoleFromUser"} |->
        CASE op = "createRole" -> "ROLE_CREATED"
          [] op = "updateRole" -> "ROLE_UPDATED"
          [] op = "deleteRole" -> "ROLE_DELETED"
          [] op = "assignPermissionsToRole" -> "PERMISSION_GRANTED"
          [] op = "revokePermissionsFromRole" -> "PERMISSION_REVOKED"
          [] op = "assignRoleToUser" -> "USER_ROLE_ASSIGNED"
          [] op = "revokeRoleFromUser" -> "USER_ROLE_REVOKED"]

(* The step appends exactly one audit entry, of the operation's action     *)
(* type.                                                                   *)
OneEntryAdded ==
    /\ Len(permission_audit_log') = Len(permission_audit_log) + 1
    /\ SubSeq(permission_audit_log', 1, Len(permission_audit_log)) = permission_audit_log
    /\ permission_audit_log'[Len(permission_audit_log')].action_type
          = AuditedActionType[res'.gate]

(* C12: Audit completeness. Every successful createRole, updateRole,       *)
(* deleteRole, assignPermissions, revokePermissions, assignRole and        *)
(* revokeRole adds exactly one audit entry, with the action type of the    *)
(* operation and with performedBy the id of the authenticated principal;   *)
(* a failing one adds none.                                                *)
C12_AuditCompleteness ==
    [][ (res = NoRes /\ res'.gate \in DOMAIN AuditedActionType)
          => IF res'.outcome = "success"
             THEN /\ OneEntryAdded
                  /\ permission_audit_log'[Len(permission_audit_log')].performed_by
                        = res'.user.id
             ELSE permission_audit_log' = permission_audit_log
      ]_vars

(* ====================================================================== *)
(* Properties of a role's life (checked under LifeSpec)                    *)
(* ====================================================================== *)

(* The pair (orders, view_all_orders) and its permission id.               *)
OrdersPair == <<"orders", "view_all_orders">>
OrdersPermission == CHOOSE p \in PermissionIds : PermissionsNamed(OrdersPair) = {p}

(* requirePermission("orders", "view_all_orders") has just answered user   *)
(* 2, no query having thrown.                                              *)
User2Checked ==
    /\ res.gate = "requirePermission"
    /\ res.user = UserPrincipal(2)
    /\ res.pairs[1] = OrdersPair
    /\ ~res.failed

(* The last two audited operations created role r and assigned it to user  *)
(* 2, and r is bound to the permission.                                    *)
CreatedAndAssigned(r) ==
    LET n == Len(permission_audit_log) IN
    /\ n >= 2
    /\ permission_audit_log[n - 1].action_type = "ROLE_CREATED"
    /\ permission_audit_log[n - 1].target_role_id = r
    /\ permission_audit_log[n].action_type = "USER_ROLE_ASSIGNED"
    /\ permission_audit_log[n].target_role_id = r
    /\ permission_audit_log[n].target_user_id = 2
    /\ \E cg \in BOOLEAN : Binding(r, OrdersPermission, cg) \in role_permissions

(* The last audited operation revoked the role of user 2.                  *)
RoleRevoked ==
    LET n == Len(permission_audit_log) IN
    /\ n >= 1
    /\ permission_audit_log[n].action_type = "USER_ROLE_REVOKED"
    /\ permission_audit_log[n].target_user_id = 2

(* Overrides granted to user 2 for the permission since.                   *)
GrantedOverrides ==
    { upo \in user_permission_overrides :
        /\ upo.user_id = 2
        /\ upo.system_permission_id = OrdersPermission
        /\ upo.is_granted }

(* C13: End to end. Once a role bound to (orders, view_all_orders) is      *)
(* created and assigned to user 2, the user's check for the pair is        *)
(* allowed; after revokeRole it is denied while the user has no override;  *)
(* after grantOverride with an expiry ahead it is allowed; once the clock  *)
(* has reached the expiry it is denied, the override row still stored.     *)
C13_EndToEnd ==
    User2Checked
        => /\ (\E r \in RoleIds : CreatedAndAssigned(r)) => res.outcome = "next"
           /\ RoleRevoked
                 => /\ GrantedOverrides = {}
                          => (res.outcome = "rejected" /\ res.code = "PERMISSION_DENIED")
                    /\ (\E upo \in GrantedOverrides : upo.expires_at > now)
                          => res.outcome = "next"
                    /\ (GrantedOverrides # {}
                          /\ \A upo \in GrantedOverrides :
                                upo.expires_at # NULL /\ upo.expires_at <= now)
                          => (res.outcome = "rejected" /\ res.code = "PERMISSION_DENIED")

(* The whole sequence has run: role 3 created with the permission and      *)
(* assigned to user 2, then revoked, an override granted until time 1, the *)
(* clock now at 2, and the check denied with the override still stored.    *)
C13_Witness ==
    /\ User2Checked
    /\ Len(permission_audit_log) = 3
    /\ permission_audit_log[1].action_type = "ROLE_CREATED"
    /\ permission_audit_log[1].target_role_id = 3
    /\ permission_audit_log[2].action_type = "USER_ROLE_ASSIGNED"
    /\ permission_audit_log[2].target_role_id = 3
    /\ permission_audit_log[2].target_user_id = 2
    /\ RoleRevoked
    /\ Binding(3, OrdersPermission, FALSE) \in role_permissions
    /\ user_permission_overrides = {Override(2, OrdersPermission, TRUE, 1)}
    /\ now = 2
    /\ res.outcome = "rejected"
    /\ res.code = "PERMISSION_DENIED"

(* The principal's own role holds the permission, with the given can_grant. *)
OwnRoleHolds(user, permissionId, canGrant) ==
    /\ user.id \in DOMAIN users
    /\ Binding(users[user.id].assigned_role_id, permissionId, canGrant) \in role_permissions

(* The principal may grant the permission in the company: an owner, the    *)
(* registered owner of the company, or a holder with can_grant.            *)
MayGrant(user, permissionId, companyId) ==
    \/ isOwner(user)
    \/ (user.userType = "user" /\ companies[companyId].owner_id = user.id)
    \/ (user.userType = "user" /\ OwnRoleHolds(user, permissionId, TRUE))

(* C14: Delegation boundary. assignPermissions binds a requested           *)
(* permission to the target role only if the acting principal may grant    *)
(* it; and for a non-owner who is not the company's registered owner and   *)
(* whose role holds P with canGrant = false, the request [P] for a role of *)
(* the company completes without an error, with skipped: 1, assigned: 0    *)
(* and no binding created.                                                 *)
C14_DelegationBoundary ==
    [][ (res = NoRes /\ res'.gate = "assignPermissionsToRole")
          => /\ \A b \in role_permissions' \ role_permissions :
                   MayGrant(res'.user, b.system_permission_id, res'.company_id)
             /\ (/\ res'.user.userType = "user"
                 /\ RoleInCompany(res'.id, res'.company_id)
                 /\ Len(res'.permission_ids) = 1
                 /\ OwnRoleHolds(res'.user, res'.permission_ids[1], FALSE)
                 /\ ~MayGrant(res'.user, res'.permission_ids[1], res'.company_id))
                   => (/\ res'.outcome = "success"
                       /\ res'.skipped = 1
                       /\ res'.count = 0
                       /\ role_permissions' = role_permissions)
      ]_vars

(* The principal holds (moduleKey, permissionKey) through an active        *)
(* binding of its own active role.                                         *)
HoldsThroughRole(user, pair) ==
    user.userType = "user" /\ ActiveRoleGrant(user.id, pair)

(* The createRole request of the step is well formed: key and name given,  *)
(* key not yet used in the company.                                        *)
CreateRequestValid ==
    /\ res'.gate = "createRole"
    /\ res'.code \notin {"REQUIRED", "DUPLICATE_KEY"}

(* C15: createRole authorization. A well-formed createRole from a company  *)
(* user who holds roles.manage_roles through an active role binding        *)
(* succeeds; from a company user who does not, it fails Forbidden (403)    *)
(* and creates no role, binding or audit entry; from an owner it is never  *)
(* answered Forbidden.                                                     *)
C15_CreateRoleAuthorization ==
    [][ (res = NoRes /\ CreateRequestValid)
          => /\ (res'.user.userType = "user"
                   /\ HoldsThroughRole(res'.user, <<"roles", "manage_roles">>))
                   => res'.outcome = "success"
             /\ (res'.user.userType = "user"
                   /\ ~HoldsThroughRole(res'.user, <<"roles", "manage_roles">>))
                   => (/\ res'.status = 403
                       /\ company_roles' = company_roles
                       /\ role_permissions' = role_permissions
                       /\ permission_audit_log' = permission_audit_log)
             /\ isOwner(res'.user) => res'.status # 403
      ]_vars

(* ====================================================================== *)
(* Properties of company scoping (checked under ScopeSpec)                 *)
(* ====================================================================== *)

(* What belongs to the companies other than company a, in the given        *)
(* tables: their roles, the bindings of their roles, the role assignments  *)
(* and the overrides of their users, and their audit entries.              *)
RolesOutside(a, roles) ==
    { <<r, roles[r]>> : r \in { x \in DOMAIN roles : roles[x].company_id # a } }
BindingsOutside(a, roles, bindings) ==
    { b \in bindings : b.company_role_id \in DOMAIN roles
                          => roles[b.company_role_id].company_id # a }
AssignmentsOutside(a, userRows) ==
    { <<u, userRows[u].assigned_role_id>> :
         u \in { x \in DOMAIN userRows : userRows[x].company_id # a } }
OverridesOutside(a, userRows, overrides) ==
    { upo \in overrides : upo.user_id \in DOMAIN userRows
                             => userRows[upo.user_id].company_id # a }
AuditOutside(a, audit) ==
    { i \in 1..Len(audit) : audit[i].company_id # a }

(* C16: Company scoping. An operation invoked by a company user of company *)
(* a works with the caller's own company as its company predicate, and     *)
(* changes no role, binding, user role assignment, override or audit entry *)
(* of another company.                                                     *)
C16_CompanyScoping ==
    [][ (res = NoRes /\ res'.gate # "idle" /\ res'.user.userType = "user")
          => LET a == res'.user.company_id IN
             /\ res'.outcome = "success" => res'.company_id = a
             /\ RolesOutside(a, company_roles') = RolesOutside(a, company_roles)
             /\ BindingsOutside(a, company_roles', role_permissions')
                   = BindingsOutside(a, company_roles, role_permissions)
             /\ AssignmentsOutside(a, users') = AssignmentsOutside(a, users)
             /\ OverridesOutside(a, users', user_permission_overrides')
                   = OverridesOutside(a, users, user_permission_overrides)
             /\ AuditOutside(a, permission_audit_log')
                   = AuditOutside(a, permission_audit_log)
      ]_vars

(* ---------------------------------------------------------------------- *)
(* C17: role keys are unique within a company                              *)
(* ---------------------------------------------------------------------- *)

(* The key as the claim compares it: without surrounding blanks and in     *)
(* lower case.                                                             *)
NormalKey(roleKey) == ToLowerCase(Trim(roleKey))

KeysUnique ==
    \A r1, r2 \in DOMAIN company_roles :
       (/\ r1 # r2
        /\ company_roles[r1].company_id = company_roles[r2].company_id)
       => NormalKey(company_roles[r1].role_key) # NormalKey(company_roles[r2].role_key)

KeyHeld(roleKey, companyId) ==
    \E r \in DOMAIN company_roles :
       /\ company_roles[r].company_id = companyId
       /\ NormalKey(company_roles[r].role_key) = NormalKey(roleKey)

(* The step answers a createRole, or a cloneRole of a role of the company, *)
(* that names a key the company already holds.                             *)
CreationOfHeldKey ==
    /\ res = NoRes
    /\ res'.gate \in {"createRole", "cloneRole"}
    /\ res'.role_key # ""
    /\ res'.gate = "cloneRole" => RoleInCompany(res'.source_id, res'.company_id)
    /\ KeyHeld(res'.role_key, res'.company_id)

(* C17: in every reachable state no two roles of one company have the same *)
(* role key, compared without letter case and surrounding blanks, also     *)
(* when a createRole on a second connection passed its duplicate check     *)
(* before another creation of the key committed; and a creation whose key  *)
(* the company already holds is answered 409 and leaves roles, bindings    *)
(* and audit log as they were.                                             *)
C17_RoleKeyUnique ==
    /\ []KeysUnique
    /\ [][CreationOfHeldKey
            => /\ res'.status = 409
               /\ company_roles' = company_roles
               /\ role_permissions' = role_permissions
               /\ permission_audit_log' = permission_audit_log]_vars

(* The createRole that passed its duplicate check was answered 409 by the  *)
(* unique key, because the key was created in between; one role holds it.  *)
C17_Witness ==
    /\ res.gate = "createRole"
    /\ res.code = "ER_DUP_ENTRY"
    /\ KeyHeld(res.role_key, res.company_id)
    /\ inflight = NoTxn

(* ---------------------------------------------------------------------- *)
(* C18: an operation that answers an error has written nothing             *)
(* ---------------------------------------------------------------------- *)
MutatingOperations ==
    {"createRole", "updateRole", "deleteRole", "cloneRole",
     "assignPermissionsToRole", "revokePermissionsFromRole", "assignRoleToUser",
     "revokeRoleFromUser", "grantPermissionOverride", "revokePermissionOverride"}

(* C18: whenever one of the ten mutating operations answers its caller     *)
(* with an error, the roles, the bindings, the overrides, the users' role  *)
(* assignments and the audit log are as they were before the call.         *)
C18_RollbackOnError ==
    [][(/\ res = NoRes
        /\ res'.gate \in MutatingOperations
        /\ res'.outcome = "error")
       => /\ company_roles' = company_roles
          /\ role_permissions' = role_permissions
          /\ user_permission_overrides' = user_permission_overrides
          /\ users' = users
          /\ permission_audit_log' = permission_audit_log]_vars

(* ---------------------------------------------------------------------- *)
(* C19: which credentials authenticateToken turns into a principal         *)
(* ---------------------------------------------------------------------- *)

(* The user of the credential exists, is active, and the company that owns *)
(* the user is active.                                                     *)
UserAndCompanyActive(id) ==
    /\ id \in DOMAIN users
    /\ users[id].is_active
    /\ users[id].company_id \in DOMAIN companies
    /\ companies[users[id].company_id].is_active

(* C19: when the store answers its query, authenticateToken attaches a     *)
(* principal for a company user's credential only if the user exists, is   *)
(* active and belongs to an active company, and otherwise answers 401 and  *)
(* attaches none; for an owner's credential it attaches a principal        *)
(* exactly if the owner row exists; and it leaves the store as it was.     *)
C19_PrincipalResolution ==
    [][(res = NoRes /\ res'.gate = "authenticateToken" /\ ~res'.failed)
       => /\ res'.decoded.userType = "user"
               => /\ res'.outcome = "next" => UserAndCompanyActive(res'.decoded.id)
                  /\ res'.outcome # "next" => res'.status = 401 /\ res'.user = NoUser
          /\ res'.decoded.userType = "owner"
               => /\ res'.outcome = "next" <=> res'.decoded.id \in owners
                  /\ res'.outcome # "next" => res'.status = 401 /\ res'.user = NoUser
          /\ res'.outcome = "next" => res'.user.id = res'.decoded.id
          /\ store' = store]_vars

(* ---------------------------------------------------------------------- *)
(* C20: one binding row per role and permission                            *)
(* ---------------------------------------------------------------------- *)

(* C20: in every reachable state role_permissions has at most one row for  *)
(* a role and a permission, after createRole with a list that repeats an   *)
(* id, assignPermissions, cloneRole and revokePermissions, and when an     *)
(* assignPermissions on a second connection found no binding before        *)
(* another one for the same role and permission committed.                 *)
C20_BindingUnique ==
    \A b1, b2 \in role_permissions :
       (/\ b1.company_role_id = b2.company_role_id
        /\ b1.system_permission_id = b2.system_permission_id)
       => b1 = b2

(* The assignPermissions that had found no binding was answered 409 by the *)
(* unique key: the binding was inserted in between and is the only one for *)
(* the role and the permission.                                            *)
C20_Witness ==
    /\ res.gate = "assignPermissionsToRole"
    /\ res.code = "ER_DUP_ENTRY"
    /\ Cardinality(BindingRows(role_permissions, res.id, res.permission_ids[1])) = 1
    /\ inflight = NoTxn

(* ---------------------------------------------------------------------- *)
(* C21: grantOverride upserts, revokeOverride deletes                      *)
(* ---------------------------------------------------------------------- *)
OverridesUnique ==
    \A o1, o2 \in user_permission_overrides :
       (/\ o1.user_id = o2.user_id
        /\ o1.system_permission_id = o2.system_permission_id)
       => o1 = o2

(* The step answers a successful grantOverride for a user and a permission *)
(* that already had a row.                                                 *)
GrantedAgain ==
    /\ res = NoRes
    /\ res'.gate = "grantPermissionOverride"
    /\ res'.outcome = "success"
    /\ OverridesOf(res'.id, res'.permission_id) # {}

(* The step answers a revokeOverride that names a user id and a permission. *)
RevokeRequested ==
    /\ res = NoRes
    /\ res'.gate = "revokePermissionOverride"
    /\ validateId(res'.id)
    /\ res'.permission_id # NULL

(* The override table after the step is the one before it with the rows of *)
(* the request's user and permission replaced by `rows`.                   *)
PairReplacedBy(rows) ==
    user_permission_overrides' =
       (user_permission_overrides \ OverridesOf(res'.id, res'.permission_id)) \cup rows

(* C21: there is never more than one override row for a user and a         *)
(* permission; a successful grantOverride for a pair that has a row,       *)
(* expired or not, leaves that single row granted, with the expiry and the *)
(* reason of the request and the acting principal as grantor; and          *)
(* revokeOverride succeeds, removes the row of the pair, and reports 0     *)
(* when there was none.                                                    *)
C21_OverrideUpsert ==
    /\ []OverridesUnique
    /\ [][/\ GrantedAgain
              => PairReplacedBy({OverrideRow(res'.id, res'.permission_id, TRUE,
                                             res'.expires_at,
                                             StoredReason(res'.reason),
                                             res'.user.id)})
          /\ RevokeRequested
              => /\ res'.outcome = "success"
                 /\ PairReplacedBy({})
                 /\ res'.count = Cardinality(OverridesOf(res'.id, res'.permission_id))]_vars

(* ---------------------------------------------------------------------- *)
(* C22: assignRole replaces the role the user holds                        *)
(* ---------------------------------------------------------------------- *)
UserOfCompany(userId, companyId) ==
    userId \in DOMAIN users /\ users[userId].company_id = companyId

RoleOfCompany(roleId, companyId) ==
    roleId \in DOMAIN company_roles /\ company_roles[roleId].company_id = companyId

(* C22: after a successful assignRole the user's assigned_role_id is the   *)
(* role of the request, whatever it was before, and no other user's row    *)
(* changed; an assignRole that names a user id and a role id of which the  *)
(* user or the role is not in the request's company is answered 404 and    *)
(* leaves every user as it was.                                            *)
C22_AssignReplaces ==
    [][(res = NoRes /\ res'.gate = "assignRoleToUser")
       => /\ res'.outcome = "success"
               => /\ res'.id \in DOMAIN users
                  /\ users' = [users EXCEPT ![res'.id].assigned_role_id = res'.role_id]
          /\ (/\ validateId(res'.id)
              /\ res'.role_id # NULL
              /\ \/ ~UserOfCompany(res'.id, res'.company_id)
                 \/ ~RoleOfCompany(res'.role_id, res'.company_id))
               => res'.status = 404 /\ users' = users]_vars

(* User 1, who held role 1, was assigned role 3, a role cloned into the    *)
(* user's company, and holds it now.                                       *)
C22_Witness ==
    /\ res.gate = "assignRoleToUser"
    /\ res.outcome = "success"
    /\ res.id = 1
    /\ res.role_id = 3
    /\ users[1].assigned_role_id = 3

(* ---------------------------------------------------------------------- *)
(* C23: the permission keys attachUserPermissions exposes                  *)
(* ---------------------------------------------------------------------- *)

(* "module.permission" of a permission of the catalog.                     *)
KeyOfPermission(permissionId) ==
    system_modules[system_permissions[permissionId].module_id].module_key
       \o "." \o system_permissions[permissionId].permission_key

(* The keys bound to the role the user holds, if that role is active.      *)
KeysOfActiveRole(userId) ==
    { KeyOfPermission(b.system_permission_id) :
        b \in { x \in role_permissions :
                  /\ userId \in DOMAIN users
                  /\ x.company_role_id = users[userId].assigned_role_id
                  /\ x.company_role_id \in DOMAIN company_roles
                  /\ company_roles[x.company_role_id].is_active } }

(* The keys of the user's granted overrides that have not expired.         *)
KeysOfActiveOverrides(userId) ==
    { KeyOfPermission(o.system_permission_id) :
        o \in { x \in user_permission_overrides :
                  /\ x.user_id = userId
                  /\ x.is_granted
                  /\ (x.expires_at = NULL \/ x.expires_at > now) } }

(* req.userPermissions holds exactly the strings of `keys`, each once.     *)
ExposesExactly(keys) ==
    /\ res.attached
    /\ DOMAIN res.userPermissions = keys
    /\ \A k \in DOMAIN res.userPermissions : res.userPermissions[k] = 1

(* attachUserPermissions always calls next(), and exposes the wildcard     *)
(* alone for an owner.                                                     *)
AttachNeverBlocksOwnerWildcard ==
    res.gate = "attachUserPermissions"
    => /\ res.outcome = "next"
       /\ res.user.userType = "owner" => ExposesExactly({"*.*"})

(* C23 as stated: attachUserPermissions never blocks, exposes ["*.*"] for  *)
(* an owner, and for a non-owner exposes, without duplicates, exactly the  *)
(* keys bound to the user's active role or carried by an active override.  *)
C23_AttachedKeys_AnyUser ==
    /\ AttachNeverBlocksOwnerWildcard
    /\ (res.gate = "attachUserPermissions" /\ res.user.userType = "user" /\ ~res.failed)
       => ExposesExactly(KeysOfActiveRole(res.user.id)
                            \cup KeysOfActiveOverrides(res.user.id))

(* C23, amended: the keys of the active role count only for a user whose   *)
(* own row is active; an inactive user is exposed the override keys alone. *)
C23_AttachedKeys ==
    /\ AttachNeverBlocksOwnerWildcard
    /\ (res.gate = "attachUserPermissions" /\ res.user.userType = "user" /\ ~res.failed)
       => ExposesExactly((IF res.user.id \in DOMAIN users /\ users[res.user.id].is_active
                          THEN KeysOfActiveRole(res.user.id) ELSE {})
                            \cup KeysOfActiveOverrides(res.user.id))

(* User 1 holds role 2, which binds (orders, view_all_orders), and has an   *)
(* active override for the same permission: the key is exposed once.       *)
C23_Witness ==
    /\ res.gate = "attachUserPermissions"
    /\ res.user = UserPrincipal(1)
    /\ users[1].is_active /\ users[1].assigned_role_id = 2
    /\ Binding(2, 2, FALSE) \in role_permissions
    /\ Override(1, 2, TRUE, NULL) \in user_permission_overrides
    /\ res.attached
    /\ res.userPermissions = [k \in {"orders.view_all_orders"} |-> 1]

(* ---------------------------------------------------------------------- *)
(* C24: the columns updateRole never writes                                *)
(* ---------------------------------------------------------------------- *)

(* The columns of a stored role the claim names; the id is the row's key.  *)
ProtectedColumns == {"role_key", "company_id", "created_by", "is_system_role"}

(* The body of the request names protected fields only.                    *)
PatchOfProtectedOnly ==
    DOMAIN res'.body \subseteq ProtectedColumns \cup {"id", "created_at"}

(* The caller of the updateRole step may manage roles: the owner, or a     *)
(* company user holding roles.manage_roles through its active role.        *)
MayManageRoles ==
    \/ isOwner(res'.user)
    \/ HoldsThroughRole(res'.user, <<"roles", "manage_roles">>)

(* C24: immutable role fields. Every updateRole step keeps every role row  *)
(* under its id with role_key, company_id, created_by and is_system_role   *)
(* as before, and changes no column outside the patch's updatable fields;  *)
(* a patch naming only protected fields, sent by a caller who may manage   *)
(* roles for a role of the company that is not a system role, is answered  *)
(* 400 and nothing is written.                                             *)
C24_ImmutableRoleFields ==
    [][ Handles("updateRole")
          => /\ DOMAIN company_roles' = DOMAIN company_roles
             /\ \A r \in DOMAIN company_roles :
                   \A f \in DOMAIN company_roles[r] :
                      company_roles'[r][f] # company_roles[r][f]
                         => /\ f \notin ProtectedColumns
                            /\ f \in DOMAIN res'.body
             /\ (PatchOfProtectedOnly /\ AddressesRole /\ MayManageRoles
                   /\ company_roles[res'.id].is_system_role # 1)
                   => (/\ res'.status = 400
                       /\ RolesBindingsAuditUnchanged)
      ]_vars

(* ---------------------------------------------------------------------- *)
(* C25: compareRoles and the ids that resolve (checked under CompareSpec)  *)
(* ---------------------------------------------------------------------- *)

(* The positions of the request's role_ids that name a role of the         *)
(* request's company.                                                      *)
ResolvingPositions ==
    { i \in DOMAIN res'.role_ids : RoleOfCompany(res'.role_ids[i], res'.company_id) }

(* C25: compareRoles answers 400 whenever fewer than two of the requested  *)
(* ids resolve to roles of the company; otherwise it succeeds with one     *)
(* entry for each resolving id, holding that role's bindings.              *)
C25_CompareResolving ==
    [][ Handles("compareRoles")
          => IF Cardinality(ResolvingPositions) < 2
             THEN res'.status = 400
             ELSE /\ res'.outcome = "success"
                  /\ DOMAIN res'.comparison
                        = { res'.role_ids[i] : i \in ResolvingPositions }
                  /\ \A r \in DOMAIN res'.comparison :
                        { p.id : p \in res'.comparison[r].permissions }
                           = { b.system_permission_id :
                                 b \in { x \in role_permissions : x.company_role_id = r } }
      ]_vars

(* ---------------------------------------------------------------------- *)
(* C26: inactive catalog entries in the three gates (checked under         *)
(* GateSpec)                                                               *)
(* ---------------------------------------------------------------------- *)

(* The pair is granted to the user by an active role binding to an active  *)
(* permission of an active module, or by an active override.               *)
GrantedActively(userId, pair) ==
    ActiveRoleGrant(userId, pair) \/ ActiveOverrideFor(userId, pair)

(* C26: in requirePermission, requireAnyPermission and                     *)
(* requireAllPermissions a company user passes only on pairs granted by an *)
(* override or by a role binding whose role, permission and module are all *)
(* active: a binding to an inactive permission, or to a permission of an   *)
(* inactive module, lets no gate pass.                                     *)
C26_InactiveNeverGrants ==
    (res.gate \in Gates3 /\ FromCompanyUser /\ res.outcome = "next")
        => IF res.gate = "requireAllPermissions"
           THEN \A i \in 1..Len(res.pairs) : GrantedActively(res.user.id, res.pairs[i])
           ELSE \E i \in 1..Len(res.pairs) : GrantedActively(res.user.id, res.pairs[i])

(* ---------------------------------------------------------------------- *)
(* C27: the bindings createRole makes and the count it audits              *)
(* ---------------------------------------------------------------------- *)

(* The requested permission ids the caller of the step may grant.          *)
GrantableRequested ==
    { res'.permission_ids[i] : i \in { j \in DOMAIN res'.permission_ids :
          MayGrant(res'.user, res'.permission_ids[j], res'.company_id) } }

(* C27: a well-formed createRole for the caller's own company, from a      *)
(* caller who may manage roles, is not aborted by a permission the caller cannot grant: the role is        *)
(* created, bound to exactly the requested permissions the caller can      *)
(* grant, and both the permission count of the answer and the              *)
(* permission_count of the ROLE_CREATED audit entry equal the number of    *)
(* bindings created.                                                       *)
C27_CreateBindsGrantable ==
    [][ (res = NoRes /\ CreateRequestValid /\ MayManageRoles
           /\ (res'.user.userType = "user" => res'.company_id = res'.user.company_id))
          => /\ res'.outcome = "success"
             /\ \A b \in role_permissions' \ role_permissions : b.company_role_id = res'.id
             /\ { b.system_permission_id : b \in role_permissions' \ role_permissions }
                   = GrantableRequested
             /\ res'.count = Cardinality(role_permissions' \ role_permissions)
             /\ Len(permission_audit_log') = Len(permission_audit_log) + 1
             /\ LET entry == permission_audit_log'[Len(permission_audit_log')] IN
                   /\ entry.action_type = "ROLE_CREATED"
                   /\ entry.permission_count
                         = Cardinality(role_permissions' \ role_permissions)
      ]_vars

(* ---------------------------------------------------------------------- *)
(* C28: referential integrity under interleaving (checked under RefSpec)   *)
(* ---------------------------------------------------------------------- *)

HoldsNothing(userId) ==
    /\ userId \in DOMAIN users
    /\ users[userId].assigned_role_id = NULL
    /\ ~\E upo \in user_permission_overrides :
          /\ upo.user_id = userId
          /\ upo.is_granted
          /\ (upo.expires_at = NULL \/ upo.expires_at > now)

(* C29: a mutating RBAC operation invoked by a company user who holds no   *)
(* role and no active override leaves the roles, the bindings, the users'  *)
(* role assignments and the overrides as they were.                        *)
C29_BarePrincipalChangesNothing ==
    [][ (/\ res = NoRes
         /\ res'.gate \in MutatingOperations
         /\ res'.user.userType = "user"
         /\ HoldsNothing(res'.user.id))
          => /\ company_roles' = company_roles
             /\ role_permissions' = role_permissions
             /\ users' = users
             /\ user_permission_overrides' = user_permission_overrides
      ]_vars

(* ---------------------------------------------------------------------- *)
(* C30: checkPermission and the requirePermission gate (checked under      *)
(* CheckSpec)                                                              *)
(* ---------------------------------------------------------------------- *)

(* The caller of the answer in res is an owner, or a company user whose    *)
(* row is active and whose company is not frozen.                          *)
CallerInGoodStanding ==
    \/ res.user.userType = "owner"
    \/ /\ res.user.userType = "user"
       /\ ~companies[res.user.company_id].is_frozen
       /\ res.user.id \in DOMAIN users
       /\ users[res.user.id].is_active

(* C30: for a caller in good standing and a named (module, permission)     *)
(* pair, checkPermission answers with a result, not an error, and its      *)
(* has_permission is true exactly when requirePermission lets the same     *)
(* principal continue for the same pair in the same store.                 *)
C30_CheckAgreesWithGate ==
    (/\ res.gate = "checkPermission"
     /\ res.module_key # "" /\ res.permission_key # ""
     /\ CallerInGoodStanding)
        => /\ res.outcome = "success"
           /\ res.has_permission
                 <=> requirePermission(res.user, res.module_key,
                                       res.permission_key).outcome = "next"

====
